---- MODULE Spec2Model ----
(***************************************************************************)
(* Model of the chart rendering pipeline of dex-sscr:                      *)
(*   - downsampleMinMax / processBins / extractMinMaxFromBin  (utils/db.ts)*)
(*   - scalePointsToCanvas, the draw* layer functions and renderChart      *)
(*     (chart-generator part of lib/r2.ts), drawNeonGlow (lib/canvas part  *)
(*     of worker.ts)                                                       *)
(* Points are records [t, y].  JavaScript numbers are modelled as exact    *)
(* extended rationals (see Num below): rounding is abstracted away, but    *)
(* division by zero yields NaN / Infinity as IEEE-754 does.                *)
(***************************************************************************)
EXTENDS Integers, Sequences, FiniteSets, TLC

\* ------------------------------------------------------------------ bounds
\* timestamps of a downsampler input are drawn from 1..MaxLen, so a series
\* has at most MaxLen points
MaxLen == 7
\* prices (y) of a downsampler input are drawn from 0..MaxY
MaxY == 2
\* targetWidth of a downsampler call is drawn from 1..MaxTargetWidth
MaxTargetWidth == 3
\* the loop index of processBins is tracked down to -MaxSpin
MaxSpin == 8

VARIABLES
  \* --- downsampleMinMax(points, targetWidth) and the loop of processBins
  points,        \* argument: the series
  targetWidth,   \* argument
  binSize,       \* processBins: parameter binSize
  i,             \* processBins: loop index (0-based, as in the code)
  downsampled,   \* processBins: the array being built
  dsResult,      \* value returned by downsampleMinMax
  dsPc           \* "call" | "bins" | "done"

dsVars == <<points, targetWidth, binSize, i, downsampled, dsResult, dsPc>>

VARIABLES
  chartData,     \* argument of renderChart: [points, entryPrice, isBullish]
  config,        \* argument of renderChart: ChartConfig
  ctx,           \* the rendering surface: paint operations issued so far
  scaledData,    \* renderChart: the local scaledData
  thrown,        \* message of the error renderChart threw, "none" if none
  rPc            \* "call" | "returned" | "thrown"

rVars == <<chartData, config, ctx, scaledData, thrown, rPc>>

VARIABLES
  \* --- generateChartWithR2(config) and its collaborators
  db,              \* data-access collaborator: the rows stored for the token
  genConfig,       \* argument: ChartGenerationWithR2Config
  gPc,             \* position of generateChartWithR2
  validation,      \* result of validateTokenForCharting
  ohlcvResult,     \* result of fetchOHLCVData: [points]
  imageBuffer,     \* canvas.toBuffer("png")
  optimizedBuffer, \* optimizeImageWithSharp(imageBuffer)
  localPath,       \* "none" (undefined) or the path saved
  r2Upload,        \* <<>> (undefined) or <<the R2UploadResult>>
  genResult,       \* <<>>, or <<the value the promise resolved with>>
  genError,        \* message of the Error the promise rejected with, <<>> if none
  rootCause,       \* message of the error first raised on the failing path
  failedAt,        \* position at which that error was raised
  effects,         \* calls made on the collaborators and the file system, in order
  stored           \* what the file system and the bucket hold: <<[at, buffer]>>

gVars == <<db, genConfig, gPc, validation, ohlcvResult, imageBuffer, optimizedBuffer,
           localPath, r2Upload, genResult, genError, rootCause, failedAt, effects,
           stored>>

VARIABLES
  \* --- handleGenerateChart(request) of the worker
  body,            \* the parsed JSON body of the request
  response,        \* the Response returned, Undefined before
  wPc              \* "call" | "pipeline" | "responded"

wVars == <<body, response, wPc>>

VARIABLES
  \* --- r2.ts, module level
  r2Bucket,        \* let r2Bucket: the cached instance, NoBucket for null
  mocksCreated,    \* number of calls of createMockR2Bucket so far
  bucketCalls      \* the calls of getR2Bucket and resetR2Bucket made, in order

bVars == <<r2Bucket, mocksCreated, bucketCalls>>

VARIABLES
  \* --- the worker handling several /generate-chart requests
  clock,           \* the millisecond Date.now() reads
  requests,        \* per request: position, config.outputPath, canvas
  canvases,        \* number of canvases created so far
  files            \* the file system: the writes made, in order

cVars == <<clock, requests, canvases, files>>

vars == <<dsVars, rVars, gVars, wVars, bVars, cVars>>

\* ------------------------------------------------------------ downsampler
Min2(a, b) == IF a < b THEN a ELSE b

\* Math.ceil(n / d) for integers n >= 0 and d # 0 (a negative d gives a
\* quotient <= 0; -0 is 0)
MathCeilDiv(n, d) == IF d > 0 THEN (n + d - 1) \div d ELSE 0 - (n \div (0 - d))

\* points.slice(from, to) with 0-based half-open bounds; a negative bound
\* counts from the end of the array, and bounds are clamped to 0..length
Slice(pts, from, to) ==
  LET rel(k) == IF k < 0 THEN (IF Len(pts) + k < 0 THEN 0 ELSE Len(pts) + k)
                ELSE (IF k > Len(pts) THEN Len(pts) ELSE k)
  IN SubSeq(pts, rel(from) + 1, rel(to))

RECURSIVE ScanMin(_, _, _)
\* the loop of extractMinMaxFromBin restricted to minPoint
ScanMin(bin, k, minPoint) ==
  IF k > Len(bin) THEN minPoint
  ELSE ScanMin(bin, k + 1, IF bin[k].y < minPoint.y THEN bin[k] ELSE minPoint)

RECURSIVE ScanMax(_, _, _)
\* the loop of extractMinMaxFromBin restricted to maxPoint
ScanMax(bin, k, maxPoint) ==
  IF k > Len(bin) THEN maxPoint
  ELSE ScanMax(bin, k + 1, IF bin[k].y > maxPoint.y THEN bin[k] ELSE maxPoint)

\* extractMinMaxFromBin returning [minPoint, maxPoint] whatever their t
extractMinMaxFromBinMinFirst(bin) ==
  IF Len(bin) = 0 THEN <<>>
  ELSE <<ScanMin(bin, 1, bin[1]), ScanMax(bin, 1, bin[1])>>

\* extractMinMaxFromBin: null is modelled as the empty sequence (processBins
\* pushes nothing for null)
extractMinMaxFromBin(bin) ==
  IF Len(bin) = 0 THEN <<>>
  ELSE LET minPoint == ScanMin(bin, 1, bin[1])
           maxPoint == ScanMax(bin, 1, bin[1])
       IN  IF minPoint.t < maxPoint.t THEN <<minPoint, maxPoint>>
                                      ELSE <<maxPoint, minPoint>>

\* processBins slicing each bin one element short
processBinsBinShort(pts, k, size) == Slice(pts, k, Min2(k + size, Len(pts)) - 1)

\* one iteration of the for loop of processBins: the bin taken at index k
processBinsBin(pts, k, size) == Slice(pts, k, Min2(k + size, Len(pts)))

\* downsampleMinMax comparing with targetWidth instead of targetWidth * 2
downsampleReturnsInputNoDouble(pts, width) == Len(pts) <= width

\* downsampleMinMax, early return: points.length <= targetWidth * 2
downsampleReturnsInput(pts, width) == Len(pts) <= width * 2

\* downsampleMinMax putting the whole series in one bin
downsampleBinSizeWhole(pts, width) == Len(pts)

\* downsampleMinMax with Math.floor in place of Math.ceil
downsampleBinSizeFloor(pts, width) == Len(pts) \div width

\* downsampleMinMax, binSize = Math.ceil(points.length / targetWidth)
downsampleBinSize(pts, width) == MathCeilDiv(Len(pts), width)

\* ---- the input series: strictly increasing t in 1..MaxLen, y in 0..MaxY
Absent == 0 - 1

RECURSIVE SeriesOf(_, _)
SeriesOf(f, k) ==
  IF k > MaxLen THEN <<>>
  ELSE IF f[k] = Absent THEN SeriesOf(f, k + 1)
       ELSE <<[t |-> k, y |-> f[k]]>> \o SeriesOf(f, k + 1)

SeriesSet == { SeriesOf(f, 1) : f \in [1..MaxLen -> {Absent} \cup (0..MaxY)] }

\* the loop index i: indices below -MaxSpin are identified with -MaxSpin (for
\* i <= -points.length neither the loop condition nor the slice depends on i)
SaturateIndex(k) == IF k < 0 - MaxSpin THEN 0 - MaxSpin ELSE k

\* downsampleMinMax returning its argument
DownsampleReturnInput ==
  /\ dsPc = "call"
  /\ downsampleReturnsInput(points, targetWidth)
  /\ dsResult' = points
  /\ dsPc' = "done"
  /\ UNCHANGED <<points, targetWidth, binSize, i, downsampled>>
  /\ UNCHANGED <<rVars, gVars, wVars, bVars, cVars>>

\* downsampleMinMax starting processBins at the second bin
DownsampleEnterBinsSkipFirst ==
  /\ dsPc = "call"
  /\ ~downsampleReturnsInput(points, targetWidth)
  /\ binSize' = downsampleBinSize(points, targetWidth)
  /\ i' = SaturateIndex(binSize')
  /\ downsampled' = <<>>
  /\ dsPc' = "bins"
  /\ UNCHANGED <<points, targetWidth, dsResult>>
  /\ UNCHANGED <<rVars, gVars, wVars, bVars, cVars>>

\* downsampleMinMax calling processBins(points, binSize)
DownsampleEnterBins ==
  /\ dsPc = "call"
  /\ ~downsampleReturnsInput(points, targetWidth)
  /\ binSize' = downsampleBinSize(points, targetWidth)
  /\ i' = 0
  /\ downsampled' = <<>>
  /\ dsPc' = "bins"
  /\ UNCHANGED <<points, targetWidth, dsResult>>
  /\ UNCHANGED <<rVars, gVars, wVars, bVars, cVars>>

\* processBins: one iteration of the for loop
ProcessBinsStep ==
  /\ dsPc = "bins"
  /\ i < Len(points)
  /\ downsampled' = downsampled \o extractMinMaxFromBin(processBinsBin(points, i, binSize))
  /\ i' = SaturateIndex(i + binSize)
  /\ UNCHANGED <<points, targetWidth, binSize, dsResult, dsPc>>
  /\ UNCHANGED <<rVars, gVars, wVars, bVars, cVars>>

\* processBins: loop exit, return downsampled
ProcessBinsReturn ==
  /\ dsPc = "bins"
  /\ ~(i < Len(points))
  /\ dsResult' = downsampled
  /\ dsPc' = "done"
  /\ UNCHANGED <<points, targetWidth, binSize, i, downsampled>>
  /\ UNCHANGED <<rVars, gVars, wVars, bVars, cVars>>

\* ---------------------------------------------------------------- numbers
\* A JavaScript number is modelled as [n, d]: d > 0 is the rational n/d (kept
\* in lowest terms), d = 0 with n = 0 is NaN, d = 0 with n # 0 is +/-Infinity
\* (sign of n).  Signed zero is not distinguished.
Abs(k) == IF k < 0 THEN 0 - k ELSE k

Sgn(k) == IF k < 0 THEN 0 - 1 ELSE IF k > 0 THEN 1 ELSE 0

RECURSIVE Gcd(_, _)
Gcd(a, b) == IF b = 0 THEN a ELSE Gcd(b, a % b)

Norm(n, d) ==
  IF d = 0 THEN [n |-> Sgn(n), d |-> 0]
  ELSE LET g == Gcd(Abs(n), d) IN [n |-> n \div g, d |-> d \div g]

NumOf(k) == [n |-> k, d |-> 1]

Frac(n, d) == Norm(n, d)

NaN == [n |-> 0, d |-> 0]

PosInf == [n |-> 1, d |-> 0]

NegInf == [n |-> 0 - 1, d |-> 0]

IsNaN(a) == a.d = 0 /\ a.n = 0

\* Number.isFinite
IsFinite(a) == a.d # 0

IsZero(a) == a.d # 0 /\ a.n = 0

Neg(a) == [n |-> 0 - a.n, d |-> a.d]

Add(a, b) ==
  IF a.d = 0 /\ b.d = 0
  THEN (IF a.n = b.n THEN a ELSE NaN)
  ELSE Norm(a.n * b.d + b.n * a.d, a.d * b.d)

Sub(a, b) == Add(a, Neg(b))

Mul(a, b) == Norm(a.n * b.n, a.d * b.d)

Div(a, b) ==
  IF b.d = 0 THEN (IF b.n = 0 \/ a.d = 0 THEN NaN ELSE NumOf(0))
  ELSE IF b.n = 0 THEN Norm(a.n, 0)
  ELSE Norm(a.n * b.d * Sgn(b.n), a.d * Abs(b.n))

\* a < b as JavaScript evaluates it (false when either side is NaN)
Lt(a, b) ==
  /\ ~IsNaN(a)
  /\ ~IsNaN(b)
  /\ IF a.d # 0 /\ b.d # 0 THEN a.n * b.d < b.n * a.d
     ELSE IF a.d = 0 THEN a.n < 0 /\ b # a
     ELSE b.n > 0

Le(a, b) == ~IsNaN(a) /\ ~IsNaN(b) /\ (a = b \/ Lt(a, b))

\* a || b : a when a is truthy (neither 0 nor NaN), else b
JsOr(a, b) == IF IsNaN(a) \/ IsZero(a) THEN b ELSE a

\* Math.round: floor(a + 1/2); NaN and the infinities are returned as they are
MathRound(a) == IF a.d = 0 THEN a ELSE NumOf((2 * a.n + a.d) \div (2 * a.d))

\* -------------------------------------------------------------- constants
\* CHART_STYLE.Y_MARGIN_RATIO = 0.06
Y_MARGIN_RATIO == Frac(6, 100)

\* CHART_STYLE.PADDING.*_RATIO
LEFT_RATIO == Frac(6, 100)

RIGHT_RATIO == Frac(12, 100)

TOP_RATIO == Frac(8, 100)

BOTTOM_RATIO == Frac(15, 100)

\* CHART_STYLE.AXIS
FONT_SIZE_RATIO == Frac(1, 100)

TICK_LENGTH == 4

LABEL_PADDING == 8

\* CHART_STYLE.GRID_LINES
GRID_LINES == 4

\* NEON_STROKES, in the order of the array
NEON_STROKES ==
  << [width |-> 6, alpha |-> Frac(25, 100), blur |-> 18],
     [width |-> 4, alpha |-> Frac(6, 10),   blur |-> 8],
     [width |-> 2, alpha |-> NumOf(1),      blur |-> 0] >>

\* CHART_STYLE.COLORS: a "#rrggbb" string is the sequence of its six hex digits
BULLISH == <<0, 0, 15, 15, 10, 2>>

BEARISH == <<15, 15, 5, 15, 6, 13>>

BACKGROUND_START == <<0, 5, 0, 6, 0, 7>>

BACKGROUND_END == <<0, 11, 0, 15, 1, 0>>

\* a CSS colour as the canvas reads it: [r, g, b, a]
Rgba(r, g, b, a) == [r |-> r, g |-> g, b |-> b, a |-> a]

\* "rgba(255,255,255,0.08)"
GRID == Rgba(255, 255, 255, Frac(8, 100))

\* "rgba(255,255,255,0.6)"
AXIS_LABELS == Rgba(255, 255, 255, Frac(6, 10))

\* hexToRgba(hex, alpha): parseInt of the three digit pairs
hexToRgba(hex, alpha) ==
  Rgba(16 * hex[1] + hex[2], 16 * hex[3] + hex[4], 16 * hex[5] + hex[6], alpha)

\* a "#rrggbb" string handed to the canvas as it is (opaque colour)
CssHex(hex) == hexToRgba(hex, NumOf(1))

\* ------------------------------------------------------------------ scaler
Coord(x, y) == [x |-> x, y |-> y]

\* xScale dividing by timeMax instead of (timeMax - timeMin)
xScaleNoOffset(env, timestamp) ==
  Add(NumOf(env.l),
      Mul(Div(Sub(NumOf(timestamp), NumOf(env.timeMin)), NumOf(env.timeMax)),
          NumOf(env.innerWidth)))

\* xScale closure of scalePointsToCanvas; env holds the captured variables
xScale(env, timestamp) ==
  Add(NumOf(env.l),
      Mul(Div(Sub(NumOf(timestamp), NumOf(env.timeMin)),
              Sub(NumOf(env.timeMax), NumOf(env.timeMin))),
          NumOf(env.innerWidth)))

\* the same closure applied to a fractional timestamp (X-axis ticks)
xScaleNum(env, timestamp) ==
  Add(NumOf(env.l),
      Mul(Div(Sub(timestamp, NumOf(env.timeMin)),
              Sub(NumOf(env.timeMax), NumOf(env.timeMin))),
          NumOf(env.innerWidth)))

\* yScale closure of scalePointsToCanvas
yScale(env, value) ==
  Add(NumOf(env.t),
      Mul(Sub(NumOf(1), Div(Sub(value, env.yMin), Sub(env.yMax, env.yMin))),
          NumOf(env.innerHeight)))

RECURSIVE ScanYMin(_, _, _)
\* the bounds loop of scalePointsToCanvas, yMin
ScanYMin(pts, k, yMin) ==
  IF k > Len(pts) THEN yMin
  ELSE ScanYMin(pts, k + 1, IF Lt(NumOf(pts[k].y), yMin) THEN NumOf(pts[k].y) ELSE yMin)

RECURSIVE ScanYMax(_, _, _)
\* the bounds loop of scalePointsToCanvas, yMax
ScanYMax(pts, k, yMax) ==
  IF k > Len(pts) THEN yMax
  ELSE ScanYMax(pts, k + 1, IF Lt(yMax, NumOf(pts[k].y)) THEN NumOf(pts[k].y) ELSE yMax)

\* scalePointsToCanvas adding no margin to the value range
yMarginOfNone(yMin, yMax) == NumOf(0)

\* yMargin without the "|| 1" fallback
yMarginOfNoFallback(yMin, yMax) == Mul(Sub(yMax, yMin), Y_MARGIN_RATIO)

\* const yMargin = (yMax - yMin) * CHART_STYLE.Y_MARGIN_RATIO || 1
yMarginOf(yMin, yMax) == JsOr(Mul(Sub(yMax, yMin), Y_MARGIN_RATIO), NumOf(1))

NoScaledData == [thrown |-> "not called"]

\* scalePointsToCanvas({points, canvasWidth, canvasHeight, padding})
scalePointsToCanvas(pts, canvasWidth, canvasHeight, padding) ==
  IF Len(pts) = 0 THEN [thrown |-> "Cannot scale empty points array"]
  ELSE
    LET innerWidth == canvasWidth - padding.l - padding.r
        innerHeight == canvasHeight - padding.t - padding.b
        timeMin == pts[1].t
        timeMax == pts[Len(pts)].t
        yMin0 == ScanYMin(pts, 1, PosInf)
        yMax0 == ScanYMax(pts, 1, NegInf)
        yMargin == yMarginOf(yMin0, yMax0)
        yMin == Sub(yMin0, yMargin)
        yMax == Add(yMax0, yMargin)
        xEnv == [l |-> padding.l, timeMin |-> timeMin, timeMax |-> timeMax,
                 innerWidth |-> innerWidth]
        yEnv == [t |-> padding.t, yMin |-> yMin, yMax |-> yMax,
                 innerHeight |-> innerHeight]
    IN [thrown |-> "none",
        coordinates |-> [k \in 1..Len(pts) |->
                           Coord(xScale(xEnv, pts[k].t), yScale(yEnv, NumOf(pts[k].y)))],
        yScale |-> yEnv,
        xScale |-> xEnv,
        yMin |-> yMin,
        yMax |-> yMax]

\* ------------------------------------------------------------ draw layers
\* The rendering surface ctx is the sequence of paint operations issued on it.
\* A paint operation records the layer function that issued it, the canvas
\* method, the fill/stroke style in effect (gradient: its colour stops), the
\* lineWidth and shadowBlur in effect and the geometry.  Label texts are not
\* recorded.
Op(layer, op, style, lineWidth, blur, path) ==
  [layer |-> layer, op |-> op, style |-> style, lineWidth |-> lineWidth,
   blur |-> blur, path |-> path]

RECURSIVE Flatten(_, _)
\* concatenation of the sequences ss[k..Len(ss)]
Flatten(ss, k) == IF k > Len(ss) THEN <<>> ELSE ss[k] \o Flatten(ss, k + 1)

\* getChartStyle(isBullish)
getChartStyle(isBullish) ==
  LET lineColor == IF isBullish THEN BULLISH ELSE BEARISH
  IN [lineColor |-> lineColor,
      backgroundColor |-> [start |-> BACKGROUND_START, end |-> BACKGROUND_END],
      gridColor |-> GRID,
      entryLineColor |-> lineColor]

\* createDefaultChartConfig(width, height, dpr)
createDefaultChartConfig(width, height, dpr) ==
  [dimensions |-> [width |-> width, height |-> height, dpr |-> dpr],
   padding |-> [l |-> MathRound(Mul(NumOf(width), LEFT_RATIO)).n,
                r |-> MathRound(Mul(NumOf(width), RIGHT_RATIO)).n,
                t |-> MathRound(Mul(NumOf(height), TOP_RATIO)).n,
                b |-> MathRound(Mul(NumOf(height), BOTTOM_RATIO)).n],
   style |-> getChartStyle(TRUE),
   downsampleWidth |-> MathRound(NumOf(width * 2)).n]

\* drawBackground(ctx, width, height, style)
drawBackground(width, height, style) ==
  << Op("background", "fillRect",
        <<CssHex(style.backgroundColor.start), CssHex(style.backgroundColor.end)>>,
        NumOf(1), 0,
        <<Coord(NumOf(0), NumOf(0)), Coord(NumOf(width), NumOf(height))>>) >>

\* drawGrid(ctx, width, height, padding, style, gridLines = GRID_LINES)
drawGrid(width, height, padding, style, gridLines) ==
  LET innerWidth == width - padding.l - padding.r
      innerHeight == height - padding.t - padding.b
      verticalLines == 5
      hy(k) == Add(MathRound(Add(NumOf(padding.t),
                                 Mul(Frac(k, gridLines), NumOf(innerHeight)))),
                   Frac(1, 2))
      vx(k) == Add(MathRound(Add(NumOf(padding.l),
                                 Mul(Frac(k, verticalLines), NumOf(innerWidth)))),
                   Frac(1, 2))
  IN [k \in 1..(gridLines + 1) |->
        Op("grid", "stroke", <<style.gridColor>>, NumOf(1), 0,
           <<Coord(NumOf(padding.l), hy(k - 1)),
             Coord(NumOf(width - padding.r), hy(k - 1))>>)]
     \o
     [k \in 1..(verticalLines + 1) |->
        Op("grid", "stroke", <<style.gridColor>>, NumOf(1), 0,
           <<Coord(vx(k - 1), NumOf(padding.t)),
             Coord(vx(k - 1), NumOf(height - padding.b))>>)]

\* drawYAxis(ctx, yMin, yMax, yScale, padding, width, dpr)
drawYAxis(yMin, yMax, yEnv, padding, width, dpr) ==
  LET tickCount == 5
      value(k) == Add(yMin, Mul(Sub(yMax, yMin), Frac(k, tickCount)))
      y(k) == yScale(yEnv, value(k))
      labelX == Add(NumOf(width - padding.r), Mul(NumOf(LABEL_PADDING), dpr))
      tickX == Add(NumOf(width - padding.r), Mul(NumOf(TICK_LENGTH), dpr))
  IN Flatten([k \in 1..(tickCount + 1) |->
       << Op("yAxis", "fillText", <<AXIS_LABELS>>, NumOf(1), 0,
             <<Coord(labelX, y(k - 1))>>),
          Op("yAxis", "stroke", <<AXIS_LABELS>>, NumOf(1), 0,
             <<Coord(NumOf(width - padding.r), y(k - 1)), Coord(tickX, y(k - 1))>>) >>], 1)

\* formatTime(timestamp, timeRange).split("\n").length
formatTimeLines(timeRange) ==
  IF timeRange > 7 * 24 * 60 * 60 * 1000 THEN 1
  ELSE IF timeRange > 24 * 60 * 60 * 1000 THEN 2
  ELSE 1

\* drawXAxis(ctx, points, xScale, padding, height, width, dpr)
drawXAxis(pts, xEnv, padding, height, width, dpr) ==
  IF Len(pts) = 0 THEN <<>>
  ELSE
    LET tickCount == 5
        fontSize == Mul(Mul(NumOf(width), FONT_SIZE_RATIO), dpr)
        timeRange == pts[Len(pts)].t - pts[1].t
        timestamp(k) == Add(NumOf(pts[1].t), Frac(timeRange * k, tickCount))
        x(k) == xScaleNum(xEnv, timestamp(k))
        lineHeight == Mul(fontSize, Frac(13, 10))
        lineY(lineIndex) ==
          Add(Add(NumOf(height - padding.b), Mul(NumOf(LABEL_PADDING), dpr)),
              Mul(NumOf(lineIndex), lineHeight))
        tickY == Add(NumOf(height - padding.b), Mul(NumOf(TICK_LENGTH), dpr))
    IN Flatten([k \in 1..(tickCount + 1) |->
         [j \in 1..formatTimeLines(timeRange) |->
            Op("xAxis", "fillText", <<AXIS_LABELS>>, NumOf(1), 0,
               <<Coord(x(k - 1), lineY(j - 1))>>)]
         \o
         << Op("xAxis", "stroke", <<AXIS_LABELS>>, NumOf(1), 0,
               <<Coord(x(k - 1), NumOf(height - padding.b)), Coord(x(k - 1), tickY)>>) >>], 1)

\* drawEntryLine(ctx, entryPrice, width, padding, yScale, style, dpr)
drawEntryLine(entryPrice, width, padding, yEnv, style, dpr) ==
  LET y == yScale(yEnv, NumOf(entryPrice))
  IN << Op("entryLine", "stroke", <<hexToRgba(style.entryLineColor, Frac(6, 10))>>,
           Mul(Frac(3, 2), dpr), 0,
           <<Coord(NumOf(padding.l), y), Coord(NumOf(width - padding.r), y)>>) >>

\* drawAreaFill(ctx, coordinates, height, padding, color)
drawAreaFill(coordinates, height, padding, color) ==
  IF Len(coordinates) = 0 THEN <<>>
  ELSE
    LET first == coordinates[1]
        last == coordinates[Len(coordinates)]
        bottomY == NumOf(height - padding.b)
    IN << Op("areaFill", "fill",
             <<hexToRgba(color, Frac(12, 100)), Rgba(0, 0, 0, NumOf(0))>>,
             NumOf(1), 0,
             coordinates \o <<Coord(last.x, bottomY), Coord(first.x, bottomY)>>) >>

\* drawNeonGlow(ctx, coordinates, color, strokes): one stroke per layer, in
\* the order of the strokes array
drawNeonGlow(coordinates, color, strokes) ==
  IF Len(coordinates) = 0 THEN <<>>
  ELSE [k \in 1..Len(strokes) |->
          Op("glow", "stroke", <<hexToRgba(color, strokes[k].alpha)>>,
             NumOf(strokes[k].width),
             IF strokes[k].blur > 0 THEN strokes[k].blur ELSE 0,
             coordinates)]

\* drawChartLine(ctx, coordinates, color, strokes = NEON_STROKES)
drawChartLine(coordinates, color, strokes) ==
  IF Len(coordinates) = 0 THEN <<>> ELSE drawNeonGlow(coordinates, color, strokes)

\* renderChart painting the background and the grid before it scales the points
renderChartPaintFirst(surface, data, cfg) ==
  LET canvasWidth == cfg.dimensions.width
      canvasHeight == cfg.dimensions.height
      padding == cfg.padding
      dpr == cfg.dimensions.dpr
      style == getChartStyle(data.isBullish)
      painted == surface
                 \o drawBackground(canvasWidth, canvasHeight, style)
                 \o drawGrid(canvasWidth, canvasHeight, padding, style, GRID_LINES)
      scaled == scalePointsToCanvas(data.points, canvasWidth, canvasHeight, padding)
  IN IF scaled.thrown # "none"
     THEN [thrown |-> scaled.thrown, ctx |-> painted, scaledData |-> scaled]
     ELSE [thrown |-> "none",
           scaledData |-> scaled,
           ctx |-> painted
                   \o drawYAxis(scaled.yMin, scaled.yMax, scaled.yScale, padding,
                                canvasWidth, dpr)
                   \o drawXAxis(data.points, scaled.xScale, padding, canvasHeight,
                                canvasWidth, dpr)
                   \o drawEntryLine(data.entryPrice, canvasWidth, padding,
                                    scaled.yScale, style, dpr)
                   \o drawAreaFill(scaled.coordinates, canvasHeight, padding,
                                   style.lineColor)
                   \o drawChartLine(scaled.coordinates, style.lineColor, NEON_STROKES)]

\* renderChart painting the area fill over the glow line
renderChartFillLast(surface, data, cfg) ==
  LET canvasWidth == cfg.dimensions.width
      canvasHeight == cfg.dimensions.height
      padding == cfg.padding
      dpr == cfg.dimensions.dpr
      style == getChartStyle(data.isBullish)
      scaled == scalePointsToCanvas(data.points, canvasWidth, canvasHeight, padding)
  IN IF scaled.thrown # "none"
     THEN [thrown |-> scaled.thrown, ctx |-> surface, scaledData |-> scaled]
     ELSE [thrown |-> "none",
           scaledData |-> scaled,
           ctx |-> surface
                   \o drawBackground(canvasWidth, canvasHeight, style)
                   \o drawGrid(canvasWidth, canvasHeight, padding, style, GRID_LINES)
                   \o drawYAxis(scaled.yMin, scaled.yMax, scaled.yScale, padding,
                                canvasWidth, dpr)
                   \o drawXAxis(data.points, scaled.xScale, padding, canvasHeight,
                                canvasWidth, dpr)
                   \o drawEntryLine(data.entryPrice, canvasWidth, padding,
                                    scaled.yScale, style, dpr)
                   \o drawChartLine(scaled.coordinates, style.lineColor, NEON_STROKES)
                   \o drawAreaFill(scaled.coordinates, canvasHeight, padding,
                                   style.lineColor)]

\* renderChart painting with config.style instead of getChartStyle(isBullish)
renderChartConfigStyle(surface, data, cfg) ==
  LET canvasWidth == cfg.dimensions.width
      canvasHeight == cfg.dimensions.height
      padding == cfg.padding
      dpr == cfg.dimensions.dpr
      style == cfg.style
      scaled == scalePointsToCanvas(data.points, canvasWidth, canvasHeight, padding)
  IN IF scaled.thrown # "none"
     THEN [thrown |-> scaled.thrown, ctx |-> surface, scaledData |-> scaled]
     ELSE [thrown |-> "none",
           scaledData |-> scaled,
           ctx |-> surface
                   \o drawBackground(canvasWidth, canvasHeight, style)
                   \o drawGrid(canvasWidth, canvasHeight, padding, style, GRID_LINES)
                   \o drawYAxis(scaled.yMin, scaled.yMax, scaled.yScale, padding,
                                canvasWidth, dpr)
                   \o drawXAxis(data.points, scaled.xScale, padding, canvasHeight,
                                canvasWidth, dpr)
                   \o drawEntryLine(data.entryPrice, canvasWidth, padding,
                                    scaled.yScale, style, dpr)
                   \o drawAreaFill(scaled.coordinates, canvasHeight, padding,
                                   style.lineColor)
                   \o drawChartLine(scaled.coordinates, style.lineColor, NEON_STROKES)]

\* renderChart(ctx, chartData, config): the surface after the call, the error
\* thrown ("none" when it returns) and the local scaledData
renderChart(surface, data, cfg) ==
  LET canvasWidth == cfg.dimensions.width
      canvasHeight == cfg.dimensions.height
      padding == cfg.padding
      dpr == cfg.dimensions.dpr
      style == getChartStyle(data.isBullish)
      scaled == scalePointsToCanvas(data.points, canvasWidth, canvasHeight, padding)
  IN IF scaled.thrown # "none"
     THEN [thrown |-> scaled.thrown, ctx |-> surface, scaledData |-> scaled]
     ELSE [thrown |-> "none",
           scaledData |-> scaled,
           ctx |-> surface
                   \o drawBackground(canvasWidth, canvasHeight, style)
                   \o drawGrid(canvasWidth, canvasHeight, padding, style, GRID_LINES)
                   \o drawYAxis(scaled.yMin, scaled.yMax, scaled.yScale, padding,
                                canvasWidth, dpr)
                   \o drawXAxis(data.points, scaled.xScale, padding, canvasHeight,
                                canvasWidth, dpr)
                   \o drawEntryLine(data.entryPrice, canvasWidth, padding,
                                    scaled.yScale, style, dpr)
                   \o drawAreaFill(scaled.coordinates, canvasHeight, padding,
                                   style.lineColor)
                   \o drawChartLine(scaled.coordinates, style.lineColor, NEON_STROKES)]

\* ---------------------------------------------------------- renderChart
\* a renderer input has at most MaxRenderLen points
MaxRenderLen == 3
\* timestamps of a renderer input are TimeUnit * (0..MaxT), non-decreasing
MaxT == 3

TimeUnit == 12 * 60 * 60 * 1000

RenderPointSet == [t : {TimeUnit * k : k \in 0..MaxT}, y : 0..MaxY]

NonDecreasingT(pts) == \A k \in 1..(Len(pts) - 1) : pts[k].t <= pts[k + 1].t

RenderSeriesSet ==
  UNION { { pts \in [1..n -> RenderPointSet] : NonDecreasingT(pts) } : n \in 0..MaxRenderLen }

Widths == {100, 800}

Heights == {360}

Dprs == {Frac(3, 2)}

EntryPrices == {1}

\* renderChart returning normally
RenderChartReturns ==
  /\ rPc = "call"
  /\ LET res == renderChart(ctx, chartData, config)
     IN /\ res.thrown = "none"
        /\ ctx' = res.ctx
        /\ scaledData' = res.scaledData
        /\ thrown' = "none"
  /\ rPc' = "returned"
  /\ UNCHANGED <<chartData, config>>
  /\ UNCHANGED <<dsVars, gVars, wVars, bVars, cVars>>

\* renderChart leaving by an exception
RenderChartThrows ==
  /\ rPc = "call"
  /\ LET res == renderChart(ctx, chartData, config)
     IN /\ res.thrown # "none"
        /\ ctx' = res.ctx
        /\ scaledData' = res.scaledData
        /\ thrown' = res.thrown
  /\ rPc' = "thrown"
  /\ UNCHANGED <<chartData, config>>
  /\ UNCHANGED <<dsVars, gVars, wVars, bVars, cVars>>

\* ---------------------------------------------------------- data access
\* CHART_DEFAULTS.MIN_DATA_POINTS
MIN_DATA_POINTS == 100

\* DB_CONFIG.MAX_QUERY_LIMIT
MAX_QUERY_LIMIT == 10000

\* CHART_DEFAULTS.INTERVAL_MINUTES, in seconds: the spacing of the stored rows
ROW_INTERVAL == 60

\* message of an error raised by the database driver
DbErrorMessage == <<"connection refused">>

\* Number(row.close) for the cells of the close column used in the table
Number(cell) ==
  CASE cell = "1" -> NumOf(1)
    [] cell = "2" -> NumOf(2)
    [] cell = "-1" -> NumOf(0 - 1)
    [] OTHER -> NaN

\* The rows of tokenOHLCV stored for the token, ascending by timestamp: row j
\* has timestamp d.base + ROW_INTERVAL * (j - 1); the last Len(d.closes) rows
\* have the cells d.closes in the close column, the rows before them "1".
TableRows(d) ==
  [j \in 1..d.count |->
     [timestamp |-> d.base + ROW_INTERVAL * (j - 1),
      close |-> IF j > d.count - Len(d.closes)
                THEN d.closes[j - (d.count - Len(d.closes))]
                ELSE "1"]]

\* select().orderBy(desc(timestamp)).limit(1)
LatestData(d) == IF d.count = 0 THEN <<>> ELSE <<TableRows(d)[d.count]>>

\* validateTokenForCharting comparing with > in place of >=
validateTokenForChartingStrict(d, dbOk, minimumDataPoints) ==
  IF dbOk
  THEN [isValid |-> d.count > minimumDataPoints, dataCount |-> d.count]
  ELSE [isValid |-> FALSE, dataCount |-> 0]

\* validateTokenForCharting(tokenAddress, minimumDataPoints); dbOk is whether
\* the two queries resolve.  A query error is caught, logged and answered
\* with {isValid: false, dataCount: 0}.
validateTokenForCharting(d, dbOk, minimumDataPoints) ==
  IF dbOk
  THEN [isValid |-> d.count >= minimumDataPoints, dataCount |-> d.count]
  ELSE [isValid |-> FALSE, dataCount |-> 0]

\* the rows of the window query: gte(timestamp, startTime), lte(timestamp,
\* endTime), orderBy(timestamp), limit(MAX_QUERY_LIMIT)
WindowRows(d, startTime, endTime) ==
  LET InWindow(row) == /\ Le(startTime, NumOf(row.timestamp))
                       /\ row.timestamp <= endTime
      selected == SelectSeq(TableRows(d), InWindow)
  IN SubSeq(selected, 1, Min2(Len(selected), MAX_QUERY_LIMIT))

\* fetchOHLCVData({tokenAddress, periodHours}); dbOk is whether the queries
\* resolve.  thrown is the message of the Error thrown, <<>> when it returns.
fetchOHLCVData(d, dbOk, tokenAddress, periodHours) ==
  IF ~dbOk
  THEN [thrown |-> <<"Failed to fetch OHLCV data: ">> \o DbErrorMessage, points |-> <<>>]
  ELSE IF Len(LatestData(d)) = 0
  THEN [thrown |-> <<"Failed to fetch OHLCV data: ", "No data found for token ", tokenAddress>>,
        points |-> <<>>]
  ELSE IF LatestData(d)[1].timestamp = 0
  THEN [thrown |-> <<"Failed to fetch OHLCV data: ", "No valid timestamp found for token ",
                     tokenAddress>>,
        points |-> <<>>]
  ELSE
    LET endTime == LatestData(d)[1].timestamp
        startTime == Sub(NumOf(endTime), Mul(Mul(periodHours, NumOf(60)), NumOf(60)))
        results == WindowRows(d, startTime, endTime)
    IN [thrown |-> <<>>,
        points |-> [k \in 1..Len(results) |->
                      [t |-> results[k].timestamp * 1000, y |-> Number(results[k].close)]]]

\* ------------------------------------------------------ validatePointData
RECURSIVE ValueErrors(_, _)
\* the first loop of validatePointData from index k (1-based) on
ValueErrors(pts, k) ==
  IF k > Len(pts) THEN <<>>
  ELSE (IF ~IsFinite(NumOf(pts[k].t)) \/ ~IsFinite(pts[k].y)
        THEN << <<"Invalid values at index ", ToString(k - 1)>> >> ELSE <<>>)
       \o (IF Lt(pts[k].y, NumOf(0))
           THEN << <<"Negative price at index ", ToString(k - 1)>> >> ELSE <<>>)
       \o ValueErrors(pts, k + 1)

RECURSIVE OrderErrors(_, _)
\* the second loop of validatePointData from index k (1-based, k >= 2) on
OrderErrors(pts, k) ==
  IF k > Len(pts) THEN <<>>
  ELSE (IF pts[k].t <= pts[k - 1].t
        THEN << <<"Time ordering violation at index ", ToString(k - 1)>> >> ELSE <<>>)
       \o OrderErrors(pts, k + 1)

\* validatePointData without the loop that checks the time ordering
validatePointDataNoOrderCheck(pts) ==
  IF Len(pts) = 0
  THEN [isValid |-> FALSE, errors |-> << <<"Data is empty">> >>]
  ELSE LET errors ==
             (IF Len(pts) < 2
              THEN << <<"Insufficient data points (minimum 2 required)">> >> ELSE <<>>)
             \o ValueErrors(pts, 1)
       IN [isValid |-> Len(errors) = 0, errors |-> errors]

\* validatePointData(points): errors is the list of messages, each a list of
\* its parts (the values interpolated after the index are left out)
validatePointData(pts) ==
  IF Len(pts) = 0
  THEN [isValid |-> FALSE, errors |-> << <<"Data is empty">> >>]
  ELSE LET errors ==
             (IF Len(pts) < 2
              THEN << <<"Insufficient data points (minimum 2 required)">> >> ELSE <<>>)
             \o ValueErrors(pts, 1)
             \o OrderErrors(pts, 2)
       IN [isValid |-> Len(errors) = 0, errors |-> errors]

RECURSIVE Join(_, _, _)
\* errors.join(sep), from element k on
Join(msgs, sep, k) ==
  IF k > Len(msgs) THEN <<>>
  ELSE msgs[k] \o (IF k < Len(msgs) THEN <<sep>> ELSE <<>>) \o Join(msgs, sep, k + 1)

\* ------------------------------------------------------ file operations, R2
\* message of an error raised by sharp
SharpErrorMessage == <<"Input buffer contains unsupported image format">>

\* message of an error raised by mkdir
MkdirErrorMessage == <<"EACCES: permission denied, mkdir">>

\* message of an error raised by canvas.saveAs
SaveAsErrorMessage == <<"ENOSPC: no space left on device, write">>

\* message of an error raised by canvas.toBuffer
ToBufferErrorMessage == <<"unable to encode png">>

\* message of an error raised by bucket.put
PutErrorMessage == <<"R2 put failed">>

\* byte lengths of the buffers the canvas and sharp produce
BufferSizes == {1, 2}

\* optimizeImageWithSharp returning an empty buffer when sharp throws
optimizeImageWithSharpEmptyOnFailure(buffer, sharpResult) ==
  IF Len(sharpResult.thrown) = 0 THEN sharpResult.buffer
  ELSE [producer |-> "sharp", of |-> buffer.of, byteLength |-> 0]

\* optimizeImageWithSharp(imageBuffer); sharpResult is what
\* sharp(imageBuffer).png(...).toBuffer() does: thrown is the message of the
\* error it raises, <<>> when it resolves with sharpResult.buffer
optimizeImageWithSharp(buffer, sharpResult) ==
  IF Len(sharpResult.thrown) = 0 THEN sharpResult.buffer ELSE buffer

\* ensureOutputDirectory(outputPath): the message of the Error thrown, <<>>
\* when mkdir resolves
ensureOutputDirectory(mkdirOk) ==
  IF mkdirOk THEN <<>> ELSE <<"Failed to create directory: ">> \o MkdirErrorMessage

\* tokenAddress.slice(-8).toLowerCase() for the token addresses used
TokenSymbol(tokenAddress) ==
  CASE tokenAddress = "JUPyiwrYJFskUPiHa7hkeR8VUtAeFoSYbKedZNsDvCN" -> "dznsdvcn"
    [] OTHER -> tokenAddress

\* a decimal rendering of a number with at most one fractional digit
NumString(a) ==
  IF a.d = 1 THEN <<ToString(a.n)>>
  ELSE <<ToString(a.n \div a.d), ".", ToString(((a.n % a.d) * 10) \div a.d)>>

\* generateR2Key(tokenSymbol, periodHours); stamp is the ISO time with : and .
\* replaced, suffix the six random characters
generateR2Key(tokenSymbol, periodHours, stamp, suffix) ==
  <<"charts/", tokenSymbol, "-">> \o NumString(periodHours)
    \o <<"h-", stamp, "-", suffix, ".png">>

R2Stamps == {"2025-01-01T00-00-00-000Z"}

R2Suffixes == {"abc123", "xyz789"}

\* uploadToR2 reporting success whether or not bucket.put resolves
uploadToR2AlwaysSuccess(buffer, key, putOk) ==
  [success |-> TRUE, url |-> <<"https://dex-sscr.r2.dev/">> \o key, error |-> <<>>]

\* uploadToR2(buffer, key, bucket, contentType); putOk is whether bucket.put
\* resolves
uploadToR2(buffer, key, putOk) ==
  IF putOk
  THEN [success |-> TRUE, url |-> <<"https://dex-sscr.r2.dev/">> \o key, error |-> <<>>]
  ELSE [success |-> FALSE, url |-> <<>>, error |-> PutErrorMessage]

\* the integer nearest to a finite number, halves away from zero (the rounding
\* of toFixed and toPrecision on an exact decimal)
RoundHalfAway(a) ==
  NumOf(Sgn(a.n) * ((2 * Abs(a.n) + a.d) \div (2 * a.d)))

RECURSIVE SixDigitScale(_, _)
\* the least power of ten s >= scale with |a| * s >= 10^5, for a # 0: a * s
\* has its six significant digits before the decimal point
SixDigitScale(a, scale) ==
  IF Le(NumOf(100000), Mul(NumOf(scale), Norm(Abs(a.n), a.d))) THEN scale
  ELSE SixDigitScale(a, scale * 10)

\* formatPrice(price): 0 for 0, Number(price.toPrecision(6)) below 0.01 in
\* absolute value, else Number(price.toFixed(2)); NaN and the infinities are
\* returned as they are by toFixed
formatPrice(price) ==
  IF ~IsFinite(price) THEN price
  ELSE IF IsZero(price) THEN NumOf(0)
  ELSE IF Lt(Norm(Abs(price.n), price.d), Frac(1, 100))
  THEN LET scale == SixDigitScale(price, 1)
       IN Div(RoundHalfAway(Mul(price, NumOf(scale))), NumOf(scale))
  ELSE Div(RoundHalfAway(Mul(price, NumOf(100))), NumOf(100))

\* generateChartMetrics counting and pricing the rendered series in place of the
\* raw one
generateChartMetricsOfRendered(rawData, downsampledData, entryPrice, isBullish, outputPath, outputBytes, dimensions) ==
  LET lastPrice == IF Len(downsampledData) > 0
                   THEN NumOf(downsampledData[Len(downsampledData)].y) ELSE NumOf(0)
  IN [pointsRaw |-> Len(downsampledData),
      pointsDownsampled |-> Len(downsampledData),
      isBullish |-> isBullish,
      entryPrice |-> formatPrice(NumOf(entryPrice)),
      lastPrice |-> formatPrice(lastPrice),
      outputBytes |-> outputBytes,
      outputPath |-> outputPath,
      size |-> <<ToString(dimensions.width), "x", ToString(dimensions.height), " @">>
               \o NumString(dimensions.dpr) \o <<"x">>]

\* generateChartMetrics writing the size without the blank before the @
generateChartMetricsSizeNoBlank(rawData, downsampledData, entryPrice, isBullish, outputPath, outputBytes, dimensions) ==
  LET lastPrice == IF Len(rawData) > 0 THEN rawData[Len(rawData)].y ELSE NumOf(0)
  IN [pointsRaw |-> Len(rawData),
      pointsDownsampled |-> Len(downsampledData),
      isBullish |-> isBullish,
      entryPrice |-> formatPrice(NumOf(entryPrice)),
      lastPrice |-> formatPrice(lastPrice),
      outputBytes |-> outputBytes,
      outputPath |-> outputPath,
      size |-> <<ToString(dimensions.width), "x", ToString(dimensions.height), "@">>
               \o NumString(dimensions.dpr) \o <<"x">>]

\* generateChartMetrics(rawData, downsampledData, entryPrice, isBullish,
\* outputPath, outputBytes, dimensions)
generateChartMetrics(rawData, downsampledData, entryPrice, isBullish, outputPath, outputBytes, dimensions) ==
  LET lastPrice == IF Len(rawData) > 0 THEN rawData[Len(rawData)].y ELSE NumOf(0)
  IN [pointsRaw |-> Len(rawData),
      pointsDownsampled |-> Len(downsampledData),
      isBullish |-> isBullish,
      entryPrice |-> formatPrice(NumOf(entryPrice)),
      lastPrice |-> formatPrice(lastPrice),
      outputBytes |-> outputBytes,
      outputPath |-> outputPath,
      size |-> <<ToString(dimensions.width), "x", ToString(dimensions.height), " @">>
               \o NumString(dimensions.dpr) \o <<"x">>]

\* ------------------------------------------------- generateChartWithR2
Effect(call, ok) == [call |-> call, ok |-> ok]

\* an object held by the file system (at: the path) or by the bucket (at: the
\* key)
Stored(at, buffer) == [at |-> at, buffer |-> buffer]

\* the catch block of generateChartWithR2: the promise rejects with
\* "Chart generation failed: " + message; cause is the message of the error
\* first raised on the path
GenFail(cause, message) ==
  /\ gPc' = "failed"
  /\ genError' = <<"Chart generation failed: ">> \o message
  /\ rootCause' = cause
  /\ failedAt' = gPc

\* step 1: await validateTokenForCharting, throw when not valid
GenValidate ==
  /\ gPc = "validating"
  /\ \E dbOk \in BOOLEAN :
       LET v == validateTokenForCharting(db, dbOk, MIN_DATA_POINTS)
           message == <<"Token ", genConfig.tokenAddress,
                        " does not have sufficient data for charting (",
                        ToString(v.dataCount), " points)">>
       IN /\ validation' = v
          /\ effects' = effects \o <<Effect("db.count", dbOk), Effect("db.latest", dbOk)>>
          /\ IF ~v.isValid
             THEN GenFail(IF dbOk THEN message ELSE DbErrorMessage, message)
             ELSE /\ gPc' = "fetching"
                  /\ UNCHANGED <<genError, rootCause, failedAt>>
  /\ UNCHANGED <<db, stored, genConfig, ohlcvResult, imageBuffer, optimizedBuffer, localPath,
                 r2Upload, genResult>>
  /\ UNCHANGED <<dsVars, rVars, wVars, bVars, cVars>>

\* step 2: await fetchOHLCVData
GenFetch ==
  /\ gPc = "fetching"
  /\ \E dbOk \in BOOLEAN :
       LET res == fetchOHLCVData(db, dbOk, genConfig.tokenAddress, genConfig.periodHours)
       IN /\ effects' = effects \o <<Effect("db.fetch", dbOk)>>
          /\ IF Len(res.thrown) # 0
             THEN /\ GenFail(Tail(res.thrown), res.thrown)
                  /\ UNCHANGED ohlcvResult
             ELSE /\ ohlcvResult' = [points |-> res.points,
                                     tokenAddress |-> genConfig.tokenAddress,
                                     periodHours |-> genConfig.periodHours]
                  /\ gPc' = "fetched"
                  /\ UNCHANGED <<genError, rootCause, failedAt>>
  /\ UNCHANGED <<db, stored, genConfig, validation, imageBuffer, optimizedBuffer, localPath,
                 r2Upload, genResult>>
  /\ UNCHANGED <<dsVars, rVars, wVars, bVars, cVars>>

\* GenCheckData with setupChartCanvas moved before the checks of the fetched
\* series
GenCheckDataCanvasFirst ==
  /\ gPc = "fetched"
  /\ effects' = effects \o <<Effect("createCanvas", TRUE)>>
  /\ LET pts == ohlcvResult.points
         dataValidation == validatePointData(pts)
         empty == <<"No OHLCV data retrieved for token ", genConfig.tokenAddress>>
         invalid == <<"Invalid OHLCV data: ">> \o Join(dataValidation.errors, ", ", 1)
     IN IF Len(pts) = 0
        THEN GenFail(empty, empty) /\ UNCHANGED dsVars
        ELSE IF ~dataValidation.isValid
        THEN GenFail(invalid, invalid) /\ UNCHANGED dsVars
        ELSE /\ points' = [k \in 1..Len(pts) |-> [t |-> pts[k].t, y |-> pts[k].y.n]]
             /\ targetWidth' = MathRound(Mul(NumOf(genConfig.width), NumOf(2))).n
             /\ dsPc' = "call"
             /\ gPc' = "downsampling"
             /\ UNCHANGED <<binSize, i, downsampled, dsResult>>
             /\ UNCHANGED <<genError, rootCause, failedAt>>
  /\ UNCHANGED <<db, stored, genConfig, validation, ohlcvResult, imageBuffer, optimizedBuffer,
                 localPath, r2Upload, genResult>>
  /\ UNCHANGED <<rVars, wVars, bVars, cVars>>

\* steps 2 (empty check) to 5: validatePointData, downsampleWidth and the
\* call of downsampleMinMax
GenCheckData ==
  /\ gPc = "fetched"
  /\ LET pts == ohlcvResult.points
         dataValidation == validatePointData(pts)
         empty == <<"No OHLCV data retrieved for token ", genConfig.tokenAddress>>
         invalid == <<"Invalid OHLCV data: ">> \o Join(dataValidation.errors, ", ", 1)
     IN IF Len(pts) = 0
        THEN GenFail(empty, empty) /\ UNCHANGED dsVars
        ELSE IF ~dataValidation.isValid
        THEN GenFail(invalid, invalid) /\ UNCHANGED dsVars
        ELSE /\ points' = [k \in 1..Len(pts) |-> [t |-> pts[k].t, y |-> pts[k].y.n]]
             /\ targetWidth' = MathRound(Mul(NumOf(genConfig.width), NumOf(2))).n
             /\ dsPc' = "call"
             /\ gPc' = "downsampling"
             /\ UNCHANGED <<binSize, i, downsampled, dsResult>>
             /\ UNCHANGED <<genError, rootCause, failedAt>>
  /\ UNCHANGED <<db, stored, genConfig, validation, ohlcvResult, imageBuffer, optimizedBuffer,
                 localPath, r2Upload, genResult, effects>>
  /\ UNCHANGED <<rVars, wVars, bVars, cVars>>

\* steps 6 to 9, once downsampleMinMax has returned: createDefaultChartConfig,
\* setupChartCanvas, renderChart, await canvas.toBuffer("png")
GenRender ==
  /\ gPc = "downsampling"
  /\ dsPc = "done"
  /\ LET chartConfig == createDefaultChartConfig(genConfig.width, genConfig.height,
                                                 genConfig.dpr)
         data == [points |-> dsResult, entryPrice |-> genConfig.entryPrice,
                  isBullish |-> genConfig.isBullish]
         res == renderChart(<<>>, data, chartConfig)
     IN /\ chartData' = data
        /\ config' = chartConfig
        /\ ctx' = res.ctx
        /\ scaledData' = res.scaledData
        /\ thrown' = res.thrown
        /\ rPc' = IF res.thrown = "none" THEN "returned" ELSE "thrown"
        /\ \E bufOk \in BOOLEAN, size \in BufferSizes :
             IF res.thrown # "none"
             THEN /\ effects' = effects \o <<Effect("createCanvas", TRUE)>>
                  /\ GenFail(<<res.thrown>>, <<res.thrown>>)
                  /\ UNCHANGED imageBuffer
             ELSE IF ~bufOk
             THEN /\ effects' = effects \o <<Effect("createCanvas", TRUE),
                                             Effect("canvas.toBuffer", FALSE)>>
                  /\ GenFail(ToBufferErrorMessage, ToBufferErrorMessage)
                  /\ UNCHANGED imageBuffer
             ELSE /\ effects' = effects \o <<Effect("createCanvas", TRUE),
                                             Effect("canvas.toBuffer", TRUE)>>
                  /\ imageBuffer' = [producer |-> "canvas", of |-> Len(res.ctx),
                                     byteLength |-> size]
                  /\ gPc' = "optimizing"
                  /\ UNCHANGED <<genError, rootCause, failedAt>>
  /\ UNCHANGED <<db, stored, genConfig, validation, ohlcvResult, optimizedBuffer, localPath,
                 r2Upload, genResult>>
  /\ UNCHANGED <<dsVars, wVars, bVars, cVars>>

\* step 10: await optimizeImageWithSharp(imageBuffer)
GenOptimize ==
  /\ gPc = "optimizing"
  /\ \E sharpOk \in BOOLEAN, size \in BufferSizes :
       LET sharpResult ==
             IF sharpOk
             THEN [thrown |-> <<>>,
                   buffer |-> [producer |-> "sharp", of |-> imageBuffer.of,
                               byteLength |-> size]]
             ELSE [thrown |-> SharpErrorMessage, buffer |-> imageBuffer]
       IN /\ optimizedBuffer' = optimizeImageWithSharp(imageBuffer, sharpResult)
          /\ effects' = effects \o <<Effect("sharp", sharpOk)>>
  /\ gPc' = "persisting"
  /\ UNCHANGED <<db, stored, genConfig, validation, ohlcvResult, imageBuffer, localPath,
                 r2Upload, genResult, genError, rootCause, failedAt>>
  /\ UNCHANGED <<dsVars, rVars, wVars, bVars, cVars>>

\* the bytes canvas.saveAs(config.outputPath) writes: the canvas encoded as
\* PNG again, the bytes canvas.toBuffer("png") gave at step 9
canvasSaveAs == imageBuffer

\* step 11: if (config.outputPath) ensureOutputDirectory, canvas.saveAs
GenSaveLocal ==
  /\ gPc = "persisting"
  /\ IF genConfig.outputPath = "none"
     THEN /\ gPc' = "uploading"
          /\ UNCHANGED <<localPath, effects, stored, genError, rootCause, failedAt>>
     ELSE \E mkdirOk \in BOOLEAN, saveOk \in BOOLEAN :
            IF ~mkdirOk
            THEN /\ effects' = effects \o <<Effect("mkdir", FALSE)>>
                 /\ GenFail(MkdirErrorMessage, ensureOutputDirectory(mkdirOk))
                 /\ UNCHANGED <<localPath, stored>>
            ELSE IF ~saveOk
            THEN /\ effects' = effects \o <<Effect("mkdir", TRUE),
                                            Effect("canvas.saveAs", FALSE)>>
                 /\ GenFail(SaveAsErrorMessage, SaveAsErrorMessage)
                 /\ UNCHANGED <<localPath, stored>>
            ELSE /\ effects' = effects \o <<Effect("mkdir", TRUE),
                                            Effect("canvas.saveAs", TRUE)>>
                 /\ stored' = stored \o <<Stored(<<genConfig.outputPath>>, canvasSaveAs)>>
                 /\ localPath' = genConfig.outputPath
                 /\ gPc' = "uploading"
                 /\ UNCHANGED <<genError, rootCause, failedAt>>
  /\ UNCHANGED <<db, genConfig, validation, ohlcvResult, imageBuffer, optimizedBuffer,
                 r2Upload, genResult>>
  /\ UNCHANGED <<dsVars, rVars, wVars, bVars, cVars>>

\* the value generateChartWithR2 returns: step 13 and the return statement;
\* upload is <<>> for undefined, else the one-element sequence of the result
GenReturnValue(path, upload) ==
  LET metricsOutputPath ==
        IF path # "none" THEN <<path>>
        ELSE IF Len(upload) > 0 /\ upload[1].success THEN upload[1].url
        ELSE <<"memory">>
  IN [metrics |-> generateChartMetrics(ohlcvResult.points, dsResult, genConfig.entryPrice,
                                       genConfig.isBullish, metricsOutputPath,
                                       optimizedBuffer.byteLength,
                                       [width |-> genConfig.width,
                                        height |-> genConfig.height,
                                        dpr |-> genConfig.dpr]),
      localPath |-> path,
      r2Upload |-> upload]

\* steps 12 and 13: if (config.r2Bucket) await uploadToR2, then the metrics
\* and the return
GenUpload ==
  /\ gPc = "uploading"
  /\ IF genConfig.r2Bucket = "none"
     THEN /\ genResult' = <<GenReturnValue(localPath, r2Upload)>>
          /\ UNCHANGED <<r2Upload, effects, stored>>
     ELSE \E putOk \in BOOLEAN, stamp \in R2Stamps, suffix \in R2Suffixes :
            LET r2Key == generateR2Key(TokenSymbol(ohlcvResult.tokenAddress),
                                       genConfig.periodHours, stamp, suffix)
                upload == uploadToR2(optimizedBuffer, r2Key, putOk)
            IN /\ r2Upload' = <<upload>>
               /\ effects' = effects \o <<Effect("bucket.put", putOk)>>
               /\ stored' = IF putOk THEN stored \o <<Stored(r2Key, optimizedBuffer)>>
                                     ELSE stored
               /\ genResult' = <<GenReturnValue(localPath, <<upload>>)>>
  /\ gPc' = "done"
  /\ UNCHANGED <<db, genConfig, validation, ohlcvResult, imageBuffer, optimizedBuffer,
                 localPath, genError, rootCause, failedAt>>
  /\ UNCHANGED <<dsVars, rVars, wVars, bVars, cVars>>

\* ------------------------------------------------ R2 bucket instance
MaxBucketCalls == 4

\* r2Bucket = null, and the argument of a call that passes no bucket
NoBucket == [kind |-> "null", id |-> 0]

\* a bucket of the environment
RealBucket(id) == [kind |-> "real", id |-> id]

\* the values getR2Bucket is called with: nothing (undefined) or a bucket of
\* the environment
BucketArgs == {NoBucket, RealBucket(1), RealBucket(2)}

\* createMockR2Bucket(): a new object at every call; created is the number of
\* mocks made before
createMockR2Bucket(created) == [kind |-> "mock", id |-> created + 1]

\* initializeR2Bucket(bucket)
initializeR2Bucket(bucket, created) ==
  IF bucket # NoBucket THEN bucket ELSE createMockR2Bucket(created)

\* getR2Bucket initializing again whenever a bucket is passed
getR2BucketPrefersPassed(cached, bucket, created) ==
  IF cached = NoBucket \/ bucket # NoBucket
  THEN initializeR2Bucket(bucket, created) ELSE cached

\* getR2Bucket(bucket): the value of r2Bucket after the call, which is the
\* value returned; cached is r2Bucket before the call
getR2Bucket(cached, bucket, created) ==
  IF cached = NoBucket THEN initializeR2Bucket(bucket, created) ELSE cached

BucketCall(op, bucket, returned) == [op |-> op, bucket |-> bucket, returned |-> returned]

\* a call of getR2Bucket
GetR2Bucket ==
  /\ Len(bucketCalls) < MaxBucketCalls
  /\ \E bucket \in BucketArgs :
       LET instance == getR2Bucket(r2Bucket, bucket, mocksCreated)
       IN /\ r2Bucket' = instance
          /\ mocksCreated' = IF instance.kind = "mock" /\ instance # r2Bucket
                             THEN mocksCreated + 1 ELSE mocksCreated
          /\ bucketCalls' = Append(bucketCalls, BucketCall("getR2Bucket", bucket, instance))
  /\ UNCHANGED <<dsVars, rVars, gVars, wVars, cVars>>

\* a call of resetR2Bucket
ResetR2Bucket ==
  /\ Len(bucketCalls) < MaxBucketCalls
  /\ r2Bucket' = NoBucket
  /\ bucketCalls' = Append(bucketCalls, BucketCall("resetR2Bucket", NoBucket, NoBucket))
  /\ UNCHANGED mocksCreated
  /\ UNCHANGED <<dsVars, rVars, gVars, wVars, cVars>>

\* ------------------------------------------------ fetchOHLCVData, called alone
\* For a call of fetchOHLCVData on its own, genConfig holds the
\* OHLCVDataParams, ohlcvResult the value returned and genError the message
\* of the Error thrown.
FetchOHLCVDataReturns ==
  /\ gPc = "fetchCall"
  /\ \E dbOk \in BOOLEAN :
       LET res == fetchOHLCVData(db, dbOk, genConfig.tokenAddress, genConfig.periodHours)
       IN /\ Len(res.thrown) = 0
          /\ ohlcvResult' = [points |-> res.points,
                             tokenAddress |-> genConfig.tokenAddress,
                             periodHours |-> genConfig.periodHours]
          /\ effects' = effects \o <<Effect("db.fetch", dbOk)>>
  /\ gPc' = "fetchReturned"
  /\ UNCHANGED <<db, stored, genConfig, validation, imageBuffer, optimizedBuffer, localPath,
                 r2Upload, genResult, genError, rootCause, failedAt>>
  /\ UNCHANGED <<dsVars, rVars, wVars, bVars, cVars>>

FetchOHLCVDataThrows ==
  /\ gPc = "fetchCall"
  /\ \E dbOk \in BOOLEAN :
       LET res == fetchOHLCVData(db, dbOk, genConfig.tokenAddress, genConfig.periodHours)
       IN /\ Len(res.thrown) # 0
          /\ genError' = res.thrown
          /\ rootCause' = Tail(res.thrown)
          /\ effects' = effects \o <<Effect("db.fetch", dbOk)>>
  /\ gPc' = "fetchThrown"
  /\ UNCHANGED <<db, stored, genConfig, validation, ohlcvResult, imageBuffer, optimizedBuffer,
                 localPath, r2Upload, genResult, failedAt>>
  /\ UNCHANGED <<dsVars, rVars, wVars, bVars, cVars>>

\* ------------------------------------------------------------- the worker
\* A field of the parsed JSON body: its typeof, and its value in the
\* component of that type.
JUndefined == [type |-> "undefined", num |-> NaN, str |-> "", bool |-> FALSE]

JString(s) == [type |-> "string", num |-> NaN, str |-> s, bool |-> FALSE]

JNumber(a) == [type |-> "number", num |-> a, str |-> "", bool |-> FALSE]

JBoolean(b) == [type |-> "boolean", num |-> NaN, str |-> "", bool |-> b]

\* the truthiness of a field, as ! and || test it
Truthy(f) ==
  CASE f.type = "undefined" -> FALSE
    [] f.type = "string" -> f.str # ""
    [] f.type = "number" -> ~IsNaN(f.num) /\ ~IsZero(f.num)
    [] f.type = "boolean" -> f.bool

\* CHART_DEFAULTS
DEFAULT_WIDTH == 800

DEFAULT_HEIGHT == 360

DEFAULT_DPR == Frac(3, 2)

DEFAULT_PERIOD_HOURS == 24

\* field || default, for the numeric fields of the body
NumberOr(f, default) == IF Truthy(f) THEN f.num ELSE default

\* message of the error request.json() rejects with
JsonErrorMessage == <<"Unexpected token in JSON">>

\* message of the TypeError raised by destructuring null
DestructureErrorMessage == <<"Cannot destructure property 'tokenAddress' of 'body' as it is null.">>

\* readings of Date.now()
WorkerNow == {1000}

JsonResponse(status, error) == [status |-> status, error |-> error]

\* handleGenerateChart up to the creation of the configuration: the Response
\* returned by request.json() rejecting, by the destructuring of null or by
\* one of the three checks; status 0 when all of them pass
handleGenerateChartChecks(b) ==
  IF b.kind = "invalid" THEN JsonResponse(500, JsonErrorMessage)
  ELSE IF b.kind = "null" THEN JsonResponse(500, DestructureErrorMessage)
  ELSE IF ~Truthy(b.tokenAddress) \/ b.tokenAddress.type # "string"
  THEN JsonResponse(400, <<"tokenAddress is required">>)
  ELSE IF b.entryPrice.type # "number"
  THEN JsonResponse(400, <<"entryPrice is required and must be a number">>)
  ELSE IF b.isBullish.type # "boolean"
  THEN JsonResponse(400, <<"isBullish is required and must be a boolean">>)
  ELSE JsonResponse(0, <<>>)

\* handleGenerateChart: the checks, the configuration with its defaults and
\* the call of generateChart
HandleGenerateChart ==
  /\ wPc = "call"
  /\ LET checked == handleGenerateChartChecks(body)
     IN IF checked.status # 0
        THEN /\ response' = checked
             /\ wPc' = "responded"
             /\ UNCHANGED <<genConfig, gPc>>
        ELSE \E now \in WorkerNow :
               /\ genConfig' =
                    [tokenAddress |-> body.tokenAddress.str,
                     entryPrice |-> body.entryPrice.num.n,
                     isBullish |-> body.isBullish.bool,
                     periodHours |-> NumberOr(body.periodHours, NumOf(DEFAULT_PERIOD_HOURS)),
                     width |-> NumberOr(body.width, NumOf(DEFAULT_WIDTH)).n,
                     height |-> NumberOr(body.height, NumOf(DEFAULT_HEIGHT)).n,
                     dpr |-> NumberOr(body.dpr, DEFAULT_DPR),
                     outputPath |-> "./data/chart-" \o ToString(now) \o ".png",
                     r2Bucket |-> "none"]
               /\ gPc' = "validating"
               /\ wPc' = "pipeline"
               /\ UNCHANGED response
  /\ UNCHANGED body
  /\ UNCHANGED <<db, stored, validation, ohlcvResult, imageBuffer, optimizedBuffer, localPath,
                 r2Upload, genResult, genError, rootCause, failedAt, effects>>
  /\ UNCHANGED <<dsVars, rVars, bVars, cVars>>

\* handleGenerateChart after await generateChart(config): the 200 response,
\* or the 500 response of the catch block
HandleGenerateChartResponds ==
  /\ wPc = "pipeline"
  /\ gPc \in {"done", "failed"}
  /\ response' = IF gPc = "done" THEN JsonResponse(200, <<>>)
                 ELSE JsonResponse(500, genError)
  /\ wPc' = "responded"
  /\ UNCHANGED body
  /\ UNCHANGED <<dsVars, rVars, gVars, bVars, cVars>>

\* ------------------------------------ the worker, several requests in flight
\* Requests that pass the checks of handleGenerateChart and whose chart
\* generation succeeds; the data path of each is the one of
\* generateChartWithR2 above, here only the objects a request creates and the
\* file it writes are kept.  A request yields at every await, so the steps of
\* different requests interleave.
MaxRequests == 2

MaxTicks == 2

RequestIds == 1..MaxRequests

\* a request the worker has received and not yet configured
ReceivedRequest(width) ==
  [pc |-> "received", width |-> width, outputPath |-> "", canvas |-> 0]

\* the output path handleGenerateChart gives the config
WorkerOutputPath(now) == "./data/chart-" \o ToString(now) \o ".png"

\* a millisecond passes
ClockTick ==
  /\ \E start \in WorkerNow : clock < start + MaxTicks
  /\ clock' = clock + 1
  /\ UNCHANGED <<requests, canvases, files>>
  /\ UNCHANGED <<dsVars, rVars, gVars, wVars, bVars>>

\* handleGenerateChart from the parsed body to the call of generateChart: the
\* config object with outputPath from Date.now()
RequestConfigure ==
  /\ \E r \in RequestIds :
       /\ requests[r].pc = "received"
       /\ requests' = [requests EXCEPT ![r].pc = "configured",
                                       ![r].outputPath = WorkerOutputPath(clock)]
  /\ UNCHANGED <<clock, canvases, files>>
  /\ UNCHANGED <<dsVars, rVars, gVars, wVars, bVars>>

\* generateChartWithR2, steps 1 to 10 of a request: setupChartCanvas creates
\* the canvas of the request, renderChart draws on it
RequestRender ==
  /\ \E r \in RequestIds :
       /\ requests[r].pc = "configured"
       /\ requests' = [requests EXCEPT ![r].pc = "rendered",
                                       ![r].canvas = canvases + 1]
  /\ canvases' = canvases + 1
  /\ UNCHANGED <<clock, files>>
  /\ UNCHANGED <<dsVars, rVars, gVars, wVars, bVars>>

\* generateChartWithR2, step 11 of a request: canvas.saveAs(config.outputPath)
RequestSave ==
  /\ \E r \in RequestIds :
       /\ requests[r].pc = "rendered"
       /\ requests' = [requests EXCEPT ![r].pc = "saved"]
       /\ files' = Append(files, [path |-> requests[r].outputPath,
                                  canvas |-> requests[r].canvas,
                                  request |-> r])
  /\ UNCHANGED <<clock, canvases>>
  /\ UNCHANGED <<dsVars, rVars, gVars, wVars, bVars>>

\* handleGenerateChart returning the Response with success: true
RequestRespond ==
  /\ \E r \in RequestIds :
       /\ requests[r].pc = "saved"
       /\ requests' = [requests EXCEPT ![r].pc = "responded"]
  /\ UNCHANGED <<clock, canvases, files>>
  /\ UNCHANGED <<dsVars, rVars, gVars, wVars, bVars>>

\* ---------------------------------------------------------- specifications
\* the downsampler variables when no call of downsampleMinMax is modelled
DsIdle ==
  /\ points = <<>>
  /\ targetWidth = 1
  /\ binSize = 0
  /\ i = 0
  /\ downsampled = <<>>
  /\ dsResult = <<>>
  /\ dsPc = "idle"

\* the renderer variables when no call of renderChart is modelled
RIdle ==
  /\ chartData = [points |-> <<>>, entryPrice |-> 0, isBullish |-> TRUE]
  /\ config = createDefaultChartConfig(800, 360, Frac(3, 2))
  /\ ctx = <<>>
  /\ scaledData = NoScaledData
  /\ thrown = "none"
  /\ rPc = "idle"

\* the module variables of r2.ts when no call of getR2Bucket is modelled
BIdle ==
  /\ r2Bucket = NoBucket
  /\ mocksCreated = 0
  /\ bucketCalls = <<>>

\* the worker's requests when none is modelled
CIdle ==
  /\ clock = 0
  /\ requests = <<>>
  /\ canvases = 0
  /\ files = <<>>

\* the value of a variable that holds no value yet
Undefined == [undefined |-> TRUE]

\* the pipeline variables when no call of generateChartWithR2 is modelled
GIdle ==
  /\ db = [count |-> 0, base |-> ROW_INTERVAL, closes |-> <<>>]
  /\ genConfig = Undefined
  /\ gPc = "idle"
  /\ validation = Undefined
  /\ ohlcvResult = Undefined
  /\ imageBuffer = Undefined
  /\ optimizedBuffer = Undefined
  /\ localPath = "none"
  /\ r2Upload = <<>>
  /\ genResult = <<>>
  /\ genError = <<>>
  /\ rootCause = <<>>
  /\ failedAt = "none"
  /\ effects = <<>>
  /\ stored = <<>>

\* the worker variables when no request is modelled
WIdle ==
  /\ body = Undefined
  /\ response = Undefined
  /\ wPc = "idle"

\* a call of downsampleMinMax on a series and a targetWidth of the bounds
InitDownsample ==
  /\ points \in SeriesSet
  /\ targetWidth \in 1..MaxTargetWidth
  /\ binSize = 0
  /\ i = 0
  /\ downsampled = <<>>
  /\ dsResult = <<>>
  /\ dsPc = "call"
  /\ RIdle
  /\ GIdle
  /\ WIdle
  /\ BIdle
  /\ CIdle

NextDownsample ==
  \/ DownsampleReturnInput
  \/ DownsampleEnterBins
  \/ ProcessBinsStep
  \/ ProcessBinsReturn

SpecDownsample == InitDownsample /\ [][NextDownsample]_vars

\* a call of renderChart on a chart data and a configuration of the bounds,
\* with a fresh surface
InitRender ==
  /\ chartData \in [points : RenderSeriesSet, entryPrice : EntryPrices, isBullish : BOOLEAN]
  /\ config \in { createDefaultChartConfig(w, h, dpr) : w \in Widths, h \in Heights, dpr \in Dprs }
  /\ ctx = <<>>
  /\ scaledData = NoScaledData
  /\ thrown = "none"
  /\ rPc = "call"
  /\ DsIdle
  /\ GIdle
  /\ WIdle
  /\ BIdle
  /\ CIdle

NextRender ==
  \/ RenderChartReturns
  \/ RenderChartThrows

SpecRender == InitRender /\ [][NextRender]_vars

\* ---- inputs of generateChartWithR2
\* the table holds MIN_DATA_POINTS - 1 + k rows for a k in 0..MaxExtraRows, or none
MaxExtraRows == 1

GenCloseTails == {<<>>, <<"abc">>, <<"-1">>, <<"2", "1", "2", "2", "1">>}

GenDbSet ==
  { d \in [count : {0} \cup { MIN_DATA_POINTS - 1 + k : k \in 0..MaxExtraRows },
           base : {ROW_INTERVAL},
           closes : GenCloseTails] : Len(d.closes) <= d.count }

\* KNOWN_TOKENS.JUP
GenTokens == {"JUPyiwrYJFskUPiHa7hkeR8VUtAeFoSYbKedZNsDvCN"}

\* periodHours: two, five and minus sixty minutes
GenPeriods == {Frac(1, 30), Frac(1, 12), NumOf(0 - 1)}

GenWidths == {1, 100, 0 - 1}

GenOutputPaths == {"none", "./data/chart.png"}

GenBuckets == {"none", "bucket"}

GenConfigSet ==
  [tokenAddress : GenTokens, periodHours : GenPeriods, width : GenWidths,
   height : Heights, dpr : Dprs, entryPrice : EntryPrices, isBullish : {TRUE},
   outputPath : GenOutputPaths, r2Bucket : GenBuckets]

\* a call of generateChartWithR2 on a configuration and a table of the bounds
InitPipeline ==
  /\ db \in GenDbSet
  /\ genConfig \in GenConfigSet
  /\ gPc = "validating"
  /\ validation = Undefined
  /\ ohlcvResult = Undefined
  /\ imageBuffer = Undefined
  /\ optimizedBuffer = Undefined
  /\ localPath = "none"
  /\ r2Upload = <<>>
  /\ genResult = <<>>
  /\ genError = <<>>
  /\ rootCause = <<>>
  /\ failedAt = "none"
  /\ effects = <<>>
  /\ stored = <<>>
  /\ DsIdle
  /\ RIdle
  /\ WIdle
  /\ BIdle
  /\ CIdle

NextPipeline ==
  \/ GenValidate
  \/ GenFetch
  \/ GenCheckData
  \/ DownsampleReturnInput
  \/ DownsampleEnterBins
  \/ ProcessBinsStep
  \/ ProcessBinsReturn
  \/ GenRender
  \/ GenOptimize
  \/ GenSaveLocal
  \/ GenUpload

SpecPipeline == InitPipeline /\ [][NextPipeline]_vars

\* ---- inputs of step 3 of generateChartWithR2
MaxCheckLen == 3

MaxCheckT == 3

\* the prices of a fetched point: NaN, Infinity, -1, 0, 1
CheckYs == {NaN, PosInf, NumOf(0 - 1), NumOf(0), NumOf(1)}

RECURSIVE CheckSeriesOfLen(_)
CheckSeriesOfLen(n) ==
  IF n = 0 THEN {<<>>}
  ELSE { Append(s, p) : s \in CheckSeriesOfLen(n - 1),
                        p \in [t : 1..MaxCheckT, y : CheckYs] }

\* the series fetchOHLCVData may have returned: any order of the times, any
\* prices
CheckSeriesSet == UNION { CheckSeriesOfLen(n) : n \in 0..MaxCheckLen }

CheckDb == [count |-> MIN_DATA_POINTS, base |-> ROW_INTERVAL, closes |-> <<>>]

\* generateChartWithR2 at step 3: the token was validated and fetchOHLCVData
\* has returned a series of the bounds
InitCheckData ==
  /\ db = CheckDb
  /\ genConfig \in { c \in GenConfigSet : /\ c.width = 1
                                          /\ c.periodHours = Frac(1, 12)
                                          /\ c.outputPath = "none"
                                          /\ c.r2Bucket = "none" }
  /\ gPc = "fetched"
  /\ validation = validateTokenForCharting(CheckDb, TRUE, MIN_DATA_POINTS)
  /\ ohlcvResult \in [points : CheckSeriesSet,
                       tokenAddress : GenTokens,
                       periodHours : {Frac(1, 12)}]
  /\ imageBuffer = Undefined
  /\ optimizedBuffer = Undefined
  /\ localPath = "none"
  /\ r2Upload = <<>>
  /\ genResult = <<>>
  /\ genError = <<>>
  /\ rootCause = <<>>
  /\ failedAt = "none"
  /\ effects = <<Effect("db.count", TRUE), Effect("db.latest", TRUE), Effect("db.fetch", TRUE)>>
  /\ stored = <<>>
  /\ DsIdle
  /\ RIdle
  /\ WIdle
  /\ BIdle
  /\ CIdle

NextCheckData ==
  \/ GenCheckData
  \/ DownsampleReturnInput

SpecCheckData == InitCheckData /\ [][NextCheckData]_vars

\* ---- the worker with MaxRequests requests received
InitConcurrent ==
  /\ clock \in WorkerNow
  /\ requests \in [RequestIds -> { ReceivedRequest(w) : w \in Widths }]
  /\ canvases = 0
  /\ files = <<>>
  /\ DsIdle
  /\ RIdle
  /\ GIdle
  /\ WIdle
  /\ BIdle

NextConcurrent ==
  \/ ClockTick
  \/ RequestConfigure
  \/ RequestRender
  \/ RequestSave
  \/ RequestRespond

SpecConcurrent == InitConcurrent /\ [][NextConcurrent]_vars

\* ---- calls of getR2Bucket and resetR2Bucket after the module was loaded
InitBucket ==
  /\ BIdle
  /\ DsIdle
  /\ RIdle
  /\ GIdle
  /\ WIdle
  /\ CIdle

NextBucket ==
  \/ GetR2Bucket
  \/ ResetR2Bucket

SpecBucket == InitBucket /\ [][NextBucket]_vars

\* ---- inputs of fetchOHLCVData
\* the table holds 0..MaxFetchRows rows, or MAX_QUERY_LIMIT + 1 rows
MaxFetchRows == 6

FetchDbSet ==
  { d \in [count : (0..MaxFetchRows) \cup {MAX_QUERY_LIMIT + 1},
           base : {0, ROW_INTERVAL},
           closes : {<<>>, <<"abc">>, <<"2", "-1">>}] : Len(d.closes) <= d.count }

\* periodHours: one, two and sixty minutes, and two hundred hours
FetchPeriods == {Frac(1, 60), Frac(1, 30), NumOf(1), NumOf(200)}

\* a call of fetchOHLCVData on params and a table of the bounds
InitFetch ==
  /\ db \in FetchDbSet
  /\ genConfig \in [tokenAddress : GenTokens, periodHours : FetchPeriods]
  /\ gPc = "fetchCall"
  /\ validation = Undefined
  /\ ohlcvResult = Undefined
  /\ imageBuffer = Undefined
  /\ optimizedBuffer = Undefined
  /\ localPath = "none"
  /\ r2Upload = <<>>
  /\ genResult = <<>>
  /\ genError = <<>>
  /\ rootCause = <<>>
  /\ failedAt = "none"
  /\ effects = <<>>
  /\ stored = <<>>
  /\ DsIdle
  /\ RIdle
  /\ WIdle
  /\ BIdle
  /\ CIdle

NextFetch ==
  \/ FetchOHLCVDataReturns
  \/ FetchOHLCVDataThrows

SpecFetch == InitFetch /\ [][NextFetch]_vars

\* ---- requests of the worker
\* (periodHours is given in every body, two or five minutes, so that the
\* fetched series stays short)
WorkerBodySet ==
  [kind : {"object"},
   tokenAddress : {JUndefined, JString(""), JNumber(NumOf(1))}
                  \cup { JString(tok) : tok \in GenTokens },
   entryPrice : {JUndefined, JString("1"), JNumber(NumOf(1))},
   isBullish : {JUndefined, JString("true"), JBoolean(TRUE)},
   periodHours : {JNumber(Frac(1, 30)), JNumber(Frac(1, 12))},
   width : {JUndefined, JNumber(NumOf(0)), JNumber(NumOf(1)), JNumber(NumOf(0 - DEFAULT_WIDTH))},
   height : {JUndefined},
   dpr : {JUndefined}]
  \cup
  [kind : {"null", "invalid"},
   tokenAddress : {JUndefined}, entryPrice : {JUndefined}, isBullish : {JUndefined},
   periodHours : {JUndefined}, width : {JUndefined}, height : {JUndefined},
   dpr : {JUndefined}]

WorkerDbSet ==
  [count : { MIN_DATA_POINTS - 1 + k : k \in 0..MaxExtraRows },
   base : {ROW_INTERVAL},
   closes : {<<>>, <<"abc">>}]

\* a POST /generate-chart request with a body and a table of the bounds
InitWorker ==
  /\ body \in WorkerBodySet
  /\ response = Undefined
  /\ wPc = "call"
  /\ db \in WorkerDbSet
  /\ genConfig = Undefined
  /\ gPc = "idle"
  /\ validation = Undefined
  /\ ohlcvResult = Undefined
  /\ imageBuffer = Undefined
  /\ optimizedBuffer = Undefined
  /\ localPath = "none"
  /\ r2Upload = <<>>
  /\ genResult = <<>>
  /\ genError = <<>>
  /\ rootCause = <<>>
  /\ failedAt = "none"
  /\ effects = <<>>
  /\ stored = <<>>
  /\ DsIdle
  /\ RIdle
  /\ BIdle
  /\ CIdle

NextWorker ==
  \/ HandleGenerateChart
  \/ GenValidate
  \/ GenFetch
  \/ GenCheckData
  \/ DownsampleReturnInput
  \/ DownsampleEnterBins
  \/ ProcessBinsStep
  \/ ProcessBinsReturn
  \/ GenRender
  \/ GenOptimize
  \/ GenSaveLocal
  \/ GenUpload
  \/ HandleGenerateChartResponds

\* downsampleMinMax and processBins are synchronous code: once called they
\* keep running, so a step of theirs that stays possible is eventually taken
SpecWorker == InitWorker /\ [][NextWorker]_vars /\ WF_vars(NextDownsample)

\* ================================================================== claims
\* ---- helpers of the properties (computed independently of the model)
\* ceil(n / d) for n >= 0, d >= 1: the least q with q * d >= n
CeilOf(n, d) == CHOOSE q \in 0..n : q * d >= n /\ \A p \in 0..n : p * d >= n => q <= p

YsOf(pts) == { pts[k].y : k \in 1..Len(pts) }

MinOfSet(S) == CHOOSE m \in S : \A x \in S : m <= x

MaxOfSet(S) == CHOOSE m \in S : \A x \in S : m >= x

\* downsampleMinMax has returned from processBins (downsampling executed)
Downsampled == dsPc = "done" /\ Len(points) > 2 * targetWidth

\* C1: whenever series.length <= 2*targetWidth, downsampleMinMax returns the
\* input series unchanged (same points, same order, same length).
C1_IdentityWhenFits ==
  (dsPc = "done" /\ Len(points) <= 2 * targetWidth) => dsResult = points

\* C1 witness: a returned call on a series longer than targetWidth that fits
\* the budget 2*targetWidth
C1_Witness ==
  /\ dsPc = "done"
  /\ Len(points) > targetWidth
  /\ Len(points) <= 2 * targetWidth
  /\ dsResult = points

\* C2: when n > 2*targetWidth, with bucketSize = ceil(n/targetWidth),
\* 2 <= output.length <= 2*ceil(n/bucketSize) <= 2*targetWidth, and
\* output.length <= n.
C2_OutputLengthBounds ==
  Downsampled =>
    LET n == Len(points)
        bucketSize == CeilOf(n, targetWidth)
        buckets == CeilOf(n, bucketSize)
    IN /\ 2 <= Len(dsResult)
       /\ Len(dsResult) <= 2 * buckets
       /\ 2 * buckets <= 2 * targetWidth
       /\ Len(dsResult) <= n

\* C2 witness: a downsampled series of several buckets, the last one short
C2_Witness ==
  /\ Downsampled
  /\ targetWidth >= 2
  /\ Len(points) % CeilOf(Len(points), targetWidth) # 0
  /\ Len(dsResult) = 2 * targetWidth

\* C3 (as claimed): when downsampling executes no input point is emitted
\* twice, so the output is a subsequence of the input (the t of the input are
\* distinct and increasing, so the t of the output must strictly increase).
C3_NoPointEmittedTwice ==
  Downsampled =>
    /\ \A k \in 1..Len(dsResult) : \E j \in 1..Len(points) : dsResult[k] = points[j]
    /\ \A k \in 1..(Len(dsResult) - 1) : dsResult[k].t < dsResult[k + 1].t

\* C4: for an input with strictly increasing t the output is time-ordered:
\* consecutive output points a, b have a.t <= b.t.
C4_TimeOrdered ==
  dsPc = "done" =>
    \A k \in 1..(Len(dsResult) - 1) : dsResult[k].t <= dsResult[k + 1].t

\* C4 witness: a downsampled output in which a bucket's maximum precedes its
\* minimum in time, so the pair was emitted max first
C4_Witness ==
  /\ Downsampled
  /\ dsResult[1].t < dsResult[2].t
  /\ dsResult[1].y > dsResult[2].y

\* C5: for a non-empty series the minimum and the maximum y of the output are
\* those of the input, and every output point is a point of the input.
C5_ExtremesPreserved ==
  (dsPc = "done" /\ Len(points) > 0) =>
    /\ Len(dsResult) > 0
    /\ MinOfSet(YsOf(dsResult)) = MinOfSet(YsOf(points))
    /\ MaxOfSet(YsOf(dsResult)) = MaxOfSet(YsOf(points))
    /\ \A k \in 1..Len(dsResult) : \E j \in 1..Len(points) : dsResult[k] = points[j]

\* C5 witness: a downsampled output that dropped points and kept both a
\* global minimum and a different global maximum
C5_Witness ==
  /\ Downsampled
  /\ Cardinality({ dsResult[k].t : k \in 1..Len(dsResult) }) < Len(points)
  /\ MinOfSet(YsOf(dsResult)) < MaxOfSet(YsOf(dsResult))
  /\ MinOfSet(YsOf(dsResult)) = MinOfSet(YsOf(points))
  /\ MaxOfSet(YsOf(dsResult)) = MaxOfSet(YsOf(points))

\* ---- renderer
\* renderChart has returned normally: scaledData is the scaler's result
Rendered == rPc = "returned"

FirstT == chartData.points[1].t

LastT == chartData.points[Len(chartData.points)].t

\* C6 (as claimed): when timeMax = timeMin the scaler does not divide by
\* zero: every x is paddingLeft and every coordinate is finite.
C6_DegenerateTimeRange ==
  (Rendered /\ FirstT = LastT) =>
    \A k \in 1..Len(scaledData.coordinates) :
      /\ scaledData.coordinates[k].x = NumOf(config.padding.l)
      /\ IsFinite(scaledData.coordinates[k].x)
      /\ IsFinite(scaledData.coordinates[k].y)

\* C7: for a series with first.t < last.t the x-scale maps timeMin (the first
\* point's t) to paddingLeft and timeMax (the last point's t) to
\* width - paddingRight.
C7_XScaleEndpoints ==
  (Rendered /\ FirstT < LastT) =>
    /\ scaledData.coordinates[1].x = NumOf(config.padding.l)
    /\ scaledData.coordinates[Len(chartData.points)].x
         = NumOf(config.dimensions.width - config.padding.r)

\* C7 witness: a rendered series whose first t is not 0 and is less than its
\* last t
C7_Witness ==
  /\ Rendered
  /\ 0 < FirstT
  /\ FirstT < LastT
  /\ Len(chartData.points) >= 3

\* C8: the value range is expanded symmetrically by
\* margin = (valueMax - valueMin) * marginRatio, a zero margin is replaced by 1
\* (a flat series at v gives v-1 and v+1), and always yMax_adj > yMin_adj.
C8_MarginAndAdjustedBounds ==
  Rendered =>
    LET valueMin == MinOfSet(YsOf(chartData.points))
        valueMax == MaxOfSet(YsOf(chartData.points))
        margin == IF valueMax = valueMin THEN NumOf(1)
                  ELSE Frac((valueMax - valueMin) * 6, 100)
    IN /\ scaledData.yMin = Sub(NumOf(valueMin), margin)
       /\ scaledData.yMax = Add(NumOf(valueMax), margin)
       /\ IsFinite(scaledData.yMin)
       /\ IsFinite(scaledData.yMax)
       /\ scaledData.yMin.n * scaledData.yMax.d < scaledData.yMax.n * scaledData.yMin.d

\* C8 witness: a rendered flat series of several points at v = MaxY, whose
\* adjusted bounds are v-1 and v+1
C8_Witness ==
  /\ Rendered
  /\ Len(chartData.points) >= 2
  /\ FirstT < LastT
  /\ YsOf(chartData.points) = {MaxY}
  /\ scaledData.yMin = NumOf(MaxY - 1)
  /\ scaledData.yMax = NumOf(MaxY + 1)

\* C9: renderChart fails with an error when ChartData.points is empty, and
\* then no paint operation at all has been issued on the surface.
C9_EmptySeriesFailsBeforePainting ==
  (rPc \in {"returned", "thrown"} /\ Len(chartData.points) = 0) =>
    /\ rPc = "thrown"
    /\ thrown = "Cannot scale empty points array"
    /\ ctx = <<>>

\* C9 witness: renderChart has thrown on an empty series
C9_Witness ==
  /\ rPc = "thrown"
  /\ Len(chartData.points) = 0
  /\ thrown # "none"

RECURSIVE LayerRuns(_, _)
\* the layers of ops[k..], consecutive operations of one layer counted once
LayerRuns(ops, k) ==
  IF k > Len(ops) THEN <<>>
  ELSE IF k > 1 /\ ops[k].layer = ops[k - 1].layer THEN LayerRuns(ops, k + 1)
       ELSE <<ops[k].layer>> \o LayerRuns(ops, k + 1)

\* C10: for a non-empty ChartData renderChart draws every layer exactly once
\* in the order background, grid, Y-axis, X-axis, entry line, area fill, glow
\* line; the glow line is painted last, its strokes in the order of
\* NEON_STROKES: widest and most transparent first, thinnest and opaque last.
C10_LayerOrder ==
  (rPc \in {"returned", "thrown"} /\ Len(chartData.points) > 0) =>
    /\ rPc = "returned"
    /\ LayerRuns(ctx, 1)
         = <<"background", "grid", "yAxis", "xAxis", "entryLine", "areaFill", "glow">>
    /\ Len(ctx) >= 3
    /\ LET glow == SubSeq(ctx, Len(ctx) - 2, Len(ctx))
       IN /\ \A k \in 1..3 : glow[k].layer = "glow" /\ glow[k].op = "stroke"
          /\ Cardinality({ op \in { ctx[k] : k \in 1..Len(ctx) } : op.layer = "glow" }) = 3
          /\ <<glow[1].lineWidth, glow[2].lineWidth, glow[3].lineWidth>>
               = <<NumOf(6), NumOf(4), NumOf(2)>>
          /\ <<glow[1].style[1].a, glow[2].style[1].a, glow[3].style[1].a>>
               = <<Frac(1, 4), Frac(3, 5), NumOf(1)>>

\* C10 witness: a chart of several points has been rendered and its last
\* paint operation is the opaque core stroke of the glow line
C10_Witness ==
  /\ Rendered
  /\ Len(chartData.points) >= 2
  /\ FirstT < LastT
  /\ ctx[Len(ctx)].layer = "glow"
  /\ ctx[Len(ctx)].style[1].a = NumOf(1)

\* ---- generateChartWithR2
\* the calls that create or draw on a canvas, write a file or upload
ArtifactCalls ==
  {"createCanvas", "canvas.toBuffer", "sharp", "mkdir", "canvas.saveAs", "bucket.put"}

Called(call) == \E k \in 1..Len(effects) : effects[k].call = call

\* generateChartWithR2 has failed on token validation, on an empty fetched
\* series or on a data-integrity violation
FailedBeforeRender == gPc = "failed" /\ failedAt \in {"validating", "fetched"}

\* C11: when generateChartWithR2 fails because of token validation, an empty
\* fetched series or a data-integrity violation, no canvas has been created
\* or drawn on, no directory or file has been written and nothing has been
\* uploaded.
C11_NoArtifactOnEarlyFailure ==
  FailedBeforeRender =>
    /\ \A call \in ArtifactCalls : ~Called(call)
    /\ rPc = "idle"
    /\ ctx = <<>>
    /\ localPath = "none"
    /\ r2Upload = <<>>

\* a data-integrity failure of a request that asked for both a local file and
\* an upload
C11_Witness ==
  /\ gPc = "failed"
  /\ failedAt = "fetched"
  /\ Len(ohlcvResult.points) > 0
  /\ genConfig.outputPath # "none"
  /\ genConfig.r2Bucket # "none"

\* C12: when validateTokenForCharting reports fewer than MIN_DATA_POINTS
\* points, generateChartWithR2 goes from validating directly to failed, the
\* promise rejects and fetchOHLCVData is never called; with at least
\* MIN_DATA_POINTS points it goes from validating to fetching.
C12_FailFastOnInsufficientData ==
  /\ [][gPc = "validating" /\ gPc' # "validating" =>
          IF validation'.dataCount < MIN_DATA_POINTS
          THEN gPc' = "failed" /\ Len(genError') > 0 /\ genResult' = <<>>
          ELSE gPc' = "fetching" /\ genError' = <<>>]_vars
  /\ [](gPc \notin {"idle", "validating"} /\ validation.dataCount < MIN_DATA_POINTS
          => gPc = "failed" /\ failedAt = "validating" /\ ~Called("db.fetch"))

\* a token with exactly MIN_DATA_POINTS rows has passed validation
C12_Witness ==
  /\ gPc = "fetching"
  /\ validation.dataCount = MIN_DATA_POINTS

CalledWith(call, ok) == \E k \in 1..Len(effects) : effects[k] = Effect(call, ok)

\* C13: when bucket.put throws after a successful render, generateChartWithR2
\* still resolves: the result carries the metrics, localPath (the output path
\* when a local save was requested, which then has succeeded) and r2Upload
\* with success = false and the error message; nothing is thrown.
C13_UploadFailureIsNotThrown ==
  CalledWith("bucket.put", FALSE) =>
    /\ gPc = "done"
    /\ genError = <<>>
    /\ Len(genResult) = 1
    /\ genResult[1].r2Upload =
         <<[success |-> FALSE, url |-> <<>>, error |-> PutErrorMessage]>>
    /\ genResult[1].localPath = genConfig.outputPath
    /\ genResult[1].localPath # "none" <=> CalledWith("canvas.saveAs", TRUE)
    /\ genResult[1].metrics.pointsRaw = Len(ohlcvResult.points)
    /\ genResult[1].metrics.outputBytes = optimizedBuffer.byteLength

\* a failed upload after a successful local save
C13_Witness ==
  /\ CalledWith("bucket.put", FALSE)
  /\ CalledWith("canvas.saveAs", TRUE)
  /\ gPc = "done"

\* C14: when both a local save and an upload are requested, a failure of one
\* does not prevent the other from being attempted: once the request has
\* ended, the upload has been attempted whenever the local write was, also
\* when the local write failed.
C14_PersistenceStepsIndependent ==
  ( /\ gPc \in {"done", "failed"}
    /\ genConfig.outputPath # "none"
    /\ genConfig.r2Bucket # "none"
    /\ Called("mkdir") )
  => Called("bucket.put")

IsSuffix(suffix, message) ==
  /\ Len(suffix) <= Len(message)
  /\ SubSeq(message, Len(message) - Len(suffix) + 1, Len(message)) = suffix

\* C15: whenever generateChartWithR2 fails, the message of the error thrown is
\* the pipeline context followed by a message that ends with the message of
\* the error first raised, at every stage, a failure of the database during
\* token validation included.
C15_ErrorWrapsRootCause ==
  gPc = "failed" =>
    /\ Len(rootCause) > 0
    /\ Head(genError) = "Chart generation failed: "
    /\ IsSuffix(rootCause, Tail(genError))

\* C16: optimizeImageWithSharp never throws: when sharp fails the optimized
\* buffer is the image buffer itself, and the pipeline goes from optimizing
\* to persisting, never to failed.
C16_OptimizeFallsBackToOriginal ==
  /\ [][gPc = "optimizing" /\ gPc' # "optimizing" => gPc' = "persisting"]_vars
  /\ [](failedAt # "optimizing")
  /\ [](CalledWith("sharp", FALSE) =>
          /\ optimizedBuffer = imageBuffer
          /\ optimizedBuffer.producer = "canvas"
          /\ optimizedBuffer.byteLength \in BufferSizes)

\* a request that completed although sharp failed
C16_Witness ==
  /\ CalledWith("sharp", FALSE)
  /\ gPc = "done"

\* ---- fetchOHLCVData
\* C17: for a token with stored rows and periodHours > 0, fetchOHLCVData
\* returns the window ending at the latest stored timestamp: every point has
\* t in [(latest - periodHours * 3600) * 1000, latest * 1000], t is
\* ascending, and the last point is the latest row, whatever the number of
\* rows in the window.
C17_WindowEndsAtLatestRow ==
  ( /\ gPc = "fetchReturned"
    /\ db.count > 0
    /\ Lt(NumOf(0), genConfig.periodHours) )
  => LET latest == TableRows(db)[db.count].timestamp
         pts == ohlcvResult.points
         from == Mul(Sub(NumOf(latest), Mul(genConfig.periodHours, NumOf(3600))),
                     NumOf(1000))
     IN /\ \A k \in 1..Len(pts) : Le(from, NumOf(pts[k].t)) /\ pts[k].t <= latest * 1000
        /\ \A k \in 1..(Len(pts) - 1) : pts[k].t < pts[k + 1].t
        /\ Len(pts) > 0
        /\ pts[Len(pts)].t = latest * 1000

\* ---- the worker
\* C18: every request configuration the worker accepts runs to completion or
\* fails: for every such configuration the call of downsampleMinMax with
\* targetWidth = round(2 * width) terminates, so that generateChartWithR2 can
\* leave its downsampling step and go on to done or failed.
C18_DownsampleTerminates ==
  (wPc = "pipeline" /\ gPc = "downsampling") ~> (dsPc = "done")

\* the body has no string tokenAddress, no numeric entryPrice or no boolean
\* isBullish
LacksRequiredField(b) ==
  \/ b.tokenAddress.type # "string"
  \/ b.entryPrice.type # "number"
  \/ b.isBullish.type # "boolean"

\* C20: a request whose body lacks a string tokenAddress, a numeric
\* entryPrice or a boolean isBullish is answered with status 400 and the
\* pipeline is never started for it; the pipeline is started only after all
\* three checks have passed.
C20_MissingFieldsAnswered400 ==
  /\ (wPc = "responded" /\ LacksRequiredField(body))
       => (response.status = 400 /\ gPc = "idle" /\ effects = <<>>)
  /\ gPc # "idle"
       => (~LacksRequiredField(body) /\ Truthy(body.tokenAddress))

\* ---- style
\* the red, green and blue of #00ffa2 (bullish) and of #ff5f6d (bearish)
SentimentRgb(isBullish) ==
  IF isBullish THEN [r |-> 0, g |-> 255, b |-> 162] ELSE [r |-> 255, g |-> 95, b |-> 109]

SameRgb(colour, rgb) == colour.r = rgb.r /\ colour.g = rgb.g /\ colour.b = rgb.b

\* C21: the colours renderChart paints with depend on chartData.isBullish
\* alone, whatever config.style holds: entry line, area fill and line are
\* #00ffa2 when bullish and #ff5f6d when bearish (so the entry line has the
\* colour of the line), and the background gradient (#050607 to #0b0f10) and
\* the grid colour rgba(255,255,255,0.08) are the same for both.
C21_StyleFollowsSentiment ==
  Rendered =>
    \A k \in 1..Len(ctx) :
      /\ ctx[k].layer \in {"entryLine", "areaFill", "glow"}
           => SameRgb(ctx[k].style[1], SentimentRgb(chartData.isBullish))
      /\ ctx[k].layer = "background"
           => ctx[k].style = <<Rgba(5, 6, 7, NumOf(1)), Rgba(11, 15, 16, NumOf(1))>>
      /\ ctx[k].layer = "grid"
           => ctx[k].style = <<Rgba(255, 255, 255, Frac(8, 100))>>

\* a bearish series rendered with the (bullish) style of the default config
C21_Witness ==
  /\ Rendered
  /\ ~chartData.isBullish
  /\ config.style.lineColor = BULLISH
  /\ Len(chartData.points) >= 2
  /\ \E k \in 1..Len(ctx) : ctx[k].layer = "entryLine"

\* ---- metrics
Succeeded == gPc = "done" /\ Len(genResult) = 1

\* C22: in the metrics of every successful request pointsRaw is the length of
\* the fetched series, pointsDownsampled the length of the series that was
\* rendered, and lastPrice the formatted y of the last point of the fetched
\* series (0 for an empty one).
C22_MetricsCountRawAndRendered ==
  Succeeded =>
    LET metrics == genResult[1].metrics
        raw == ohlcvResult.points
    IN /\ metrics.pointsRaw = Len(raw)
       /\ metrics.pointsDownsampled = Len(chartData.points)
       /\ metrics.lastPrice = IF Len(raw) = 0 THEN NumOf(0)
                              ELSE formatPrice(raw[Len(raw)].y)

\* a successful request whose rendered series is shorter than the fetched one
C22_Witness ==
  /\ Succeeded
  /\ rPc = "returned"
  /\ Len(chartData.points) < Len(ohlcvResult.points)
  /\ genResult[1].metrics.pointsRaw > genResult[1].metrics.pointsDownsampled

RECURSIVE Text(_)
\* the string a sequence of pieces spells
Text(pieces) ==
  IF pieces = <<>> THEN "" ELSE Head(pieces) \o Text(Tail(pieces))

\* the size string of the dimensions of the request, with sep between the
\* height and the device pixel ratio
SizeText(sep) ==
  ToString(genConfig.width) \o "x" \o ToString(genConfig.height) \o sep
    \o Text(NumString(genConfig.dpr)) \o "x"

\* C23 as stated: the size field of the metrics is the width, "x", the
\* height, "@", the device pixel ratio and "x", with no other characters.
C23_SizeIsWxHAtDprx ==
  Succeeded => Text(genResult[1].metrics.size) = SizeText("@")

\* C23, amended: the size field of the metrics is the width, "x", the height,
\* one blank, "@", the device pixel ratio and "x" ("100x360 @1.5x").
C23_SizeHasBlankBeforeAt ==
  Succeeded => Text(genResult[1].metrics.size) = SizeText(" @")

\* a successful request for a 100 by 360 chart at 1.5 device pixels per pixel
C23_Witness ==
  /\ Succeeded
  /\ genConfig.width = 100
  /\ Text(genResult[1].metrics.size) = "100x360 @1.5x"

\* ---- validatePointData
\* at least two points, every t and y finite, no negative y, t strictly
\* increasing
WellFormed(pts) ==
  /\ Len(pts) >= 2
  /\ \A k \in 1..Len(pts) :
        IsFinite(NumOf(pts[k].t)) /\ IsFinite(pts[k].y) /\ Le(NumOf(0), pts[k].y)
  /\ \A k \in 2..Len(pts) : pts[k - 1].t < pts[k].t

DownsampleWidth == MathRound(Mul(NumOf(genConfig.width), NumOf(2))).n

\* C25: in generateChartWithR2, when the fetched series passed
\* validatePointData and Math.round(2 * width) is at least 2, the series
\* handed to renderChart is not empty and its first t is below its last t, so
\* timeMax - timeMin, the denominator of xScale, is not zero.
C25_RenderedSeriesSpansTime ==
  (gPc # "idle" /\ rPc # "idle" /\ DownsampleWidth >= 2) =>
    /\ validatePointData(ohlcvResult.points).isValid
    /\ Len(chartData.points) > 0
    /\ FirstT < LastT
    /\ LastT - FirstT # 0

\* a fetched series that was reduced by processBins and then rendered
C25_Witness ==
  /\ gPc # "idle"
  /\ rPc = "returned"
  /\ DownsampleWidth = 2
  /\ Len(ohlcvResult.points) > 2 * DownsampleWidth
  /\ Len(chartData.points) < Len(ohlcvResult.points)

\* ---- the inner plot rectangle
\* C26: for a series with non-decreasing t and first.t < last.t, and a padding
\* that leaves a positive inner width and height, every coordinate computed by
\* scalePointsToCanvas lies in the inner plot rectangle:
\* paddingLeft <= x <= width - paddingRight and
\* paddingTop < y < height - paddingBottom.
C26_CoordinatesInsidePlot ==
  LET padding == config.padding
      width == config.dimensions.width
      height == config.dimensions.height
  IN (/\ Rendered
      /\ NonDecreasingT(chartData.points)
      /\ FirstT < LastT
      /\ width - padding.l - padding.r > 0
      /\ height - padding.t - padding.b > 0) =>
       \A k \in 1..Len(scaledData.coordinates) :
         /\ Le(NumOf(padding.l), scaledData.coordinates[k].x)
         /\ Le(scaledData.coordinates[k].x, NumOf(width - padding.r))
         /\ Lt(NumOf(padding.t), scaledData.coordinates[k].y)
         /\ Lt(scaledData.coordinates[k].y, NumOf(height - padding.b))

\* a rendered series of three points, two of them at the first time, with
\* different prices
C26_Witness ==
  /\ Rendered
  /\ Len(chartData.points) = 3
  /\ chartData.points[1].t = chartData.points[2].t
  /\ FirstT < LastT
  /\ chartData.points[1].y < chartData.points[3].y
  /\ Len(scaledData.coordinates) = 3

\* ---- the ends of the downsampled series
\* the request succeeded and processBins reduced the fetched series
ReducedAndDone ==
  /\ Succeeded
  /\ rPc = "returned"
  /\ DownsampleWidth > 0
  /\ Len(ohlcvResult.points) > 2 * DownsampleWidth

\* C27 as stated: when processBins has reduced a fetched series with strictly increasing
\* t, the first point rendered has the t of the first fetched point and the
\* last point rendered has the t and the y of the last fetched point, so the
\* line ends at the price reported as metrics.lastPrice.
C27_DownsampleKeepsEnds ==
  ReducedAndDone =>
    LET raw == ohlcvResult.points
        drawn == chartData.points
    IN /\ drawn[1].t = raw[1].t
       /\ drawn[Len(drawn)].t = raw[Len(raw)].t
       /\ NumOf(drawn[Len(drawn)].y) = raw[Len(raw)].y
       /\ genResult[1].metrics.lastPrice = formatPrice(NumOf(drawn[Len(drawn)].y))

\* C27, amended: when processBins has reduced a fetched series with strictly
\* increasing t, every point rendered is a fetched point, the first point
\* rendered lies in the first bin and the last in the last bin (the time span
\* drawn is inside the fetched one, at most one bin short at each end), and
\* metrics.lastPrice is the price of the last fetched point, wherever the line
\* ends.
C27_DownsampleStaysInsideSpan ==
  ReducedAndDone =>
    LET raw == ohlcvResult.points
        drawn == chartData.points
    IN /\ \A k \in 1..Len(drawn) :
            \E j \in 1..Len(raw) :
              raw[j].t = drawn[k].t /\ raw[j].y = NumOf(drawn[k].y)
       /\ raw[1].t <= drawn[1].t
       /\ drawn[1].t <= raw[binSize].t
       /\ raw[Len(raw) - binSize].t < drawn[Len(drawn)].t
       /\ drawn[Len(drawn)].t <= raw[Len(raw)].t
       /\ genResult[1].metrics.lastPrice = formatPrice(raw[Len(raw)].y)

\* a successful request whose line ends before the last fetched point
C27_Witness ==
  /\ ReducedAndDone
  /\ chartData.points[Len(chartData.points)].t
       < ohlcvResult.points[Len(ohlcvResult.points)].t

\* ---- what is stored
\* the object stored under the name the metrics report: the file at the path,
\* or the object whose public URL it is
StoredAtOutputPath(object) ==
  \/ object.at = genResult[1].metrics.outputPath
  \/ <<"https://dex-sscr.r2.dev/">> \o object.at = genResult[1].metrics.outputPath

\* C28: in every successful result metrics.outputBytes is the byte length of
\* what is stored at metrics.outputPath (the local file when outputPath was
\* given, else the uploaded object), and every persistence step has stored
\* the optimized buffer.
C28_OutputBytesIsStoredSize ==
  Succeeded =>
    /\ \A k \in 1..Len(stored) : stored[k].buffer = optimizedBuffer
    /\ genResult[1].metrics.outputPath # <<"memory">> =>
         \E k \in 1..Len(stored) :
           /\ StoredAtOutputPath(stored[k])
           /\ stored[k].buffer.byteLength = genResult[1].metrics.outputBytes

\* ---- the cached bucket
IsGet(k) == bucketCalls[k].op = "getR2Bucket"

\* the first call of getR2Bucket since the module was loaded or since the
\* last resetR2Bucket before call k
FirstGetFor(k) ==
  CHOOSE f \in 1..k :
    /\ \A j \in f..k : IsGet(j)
    /\ f = 1 \/ ~IsGet(f - 1)

Configured(r) == requests[r].pc # "received"

\* C29: two requests the worker handles at the same time share nothing: each
\* has its own canvas, their configs carry different output paths, and no
\* file path is written by both.
C29_ConcurrentRequestsShareNothing ==
  \A a, b \in DOMAIN requests :
    a # b =>
      /\ (Configured(a) /\ Configured(b)) =>
           requests[a].outputPath # requests[b].outputPath
      /\ (requests[a].canvas # 0 /\ requests[b].canvas # 0) =>
           requests[a].canvas # requests[b].canvas
      /\ \A j, k \in 1..Len(files) :
           files[j].request # files[k].request => files[j].path # files[k].path

====
